---- MODULE Spec2Model ----
(***************************************************************************)
(* Chat relay of gerkoBot: the in-memory two-bot server (customer bot,     *)
(* support bot, HTTP endpoints and Socket.IO events over one registry of   *)
(* chat sessions) and its keyword auto-responder.                          *)
(*                                                                         *)
(* A text is a sequence of fragments.  Texts typed by users are spelled    *)
(* one character per fragment, so that toLowerCase and includes work on    *)
(* characters; the fixed texts of the server are a single fragment.        *)
(***************************************************************************)
EXTENDS Integers, Sequences, FiniteSets, TLC

\* ------------------------------------------------------------------------
\* Bounds of the exploration
\* ------------------------------------------------------------------------
\* messages in the logs of all sessions together
MaxMsgs == 2
\* handlers suspended at an await at the same time
MaxTasks == 1
\* the same where handlers of one session overlap
MaxHandlers == 2
\* messages in the logs when the external calls may fail
MaxMsgsFail == 3

\* ------------------------------------------------------------------------
\* Strings
\* ------------------------------------------------------------------------
LowerLetters ==
  <<"a", "b", "c", "d", "e", "f", "g", "h", "i", "j", "k", "l", "m",
    "n", "o", "p", "q", "r", "s", "t", "u", "v", "w", "x", "y", "z">>

UpperLetters ==
  <<"A", "B", "C", "D", "E", "F", "G", "H", "I", "J", "K", "L", "M",
    "N", "O", "P", "Q", "R", "S", "T", "U", "V", "W", "X", "Y", "Z">>

\* String.prototype.toLowerCase, one character
toLowerCaseChar(c) ==
  IF \E i \in 1..26 : UpperLetters[i] = c
  THEN LowerLetters[CHOOSE i \in 1..26 : UpperLetters[i] = c]
  ELSE c

\* String.prototype.toUpperCase, one character (used to build inputs)
toUpperCaseChar(c) ==
  IF \E i \in 1..26 : LowerLetters[i] = c
  THEN UpperLetters[CHOOSE i \in 1..26 : LowerLetters[i] = c]
  ELSE c

\* String.prototype.toLowerCase
toLowerCase(text) == [i \in 1..Len(text) |-> toLowerCaseChar(text[i])]

\* String.prototype.includes
includes(s, sub) ==
  \E i \in 0..(Len(s) - Len(sub)) : SubSeq(s, i + 1, i + Len(sub)) = sub

\* the value of an absent property (undefined)
Undefined == "<undefined>"

\* JavaScript truthiness of a string-or-undefined value
Truthy(v) == v # Undefined /\ v # ""

\* ------------------------------------------------------------------------
\* Auto-responder
\* ------------------------------------------------------------------------
W_agent == <<"a", "g", "e", "n", "t">>
W_talk_to_human ==
  <<"t", "a", "l", "k", " ", "t", "o", " ", "h", "u", "m", "a", "n">>
W_speak_to_human ==
  <<"s", "p", "e", "a", "k", " ", "t", "o", " ", "h", "u", "m", "a", "n">>
W_human_support ==
  <<"h", "u", "m", "a", "n", " ", "s", "u", "p", "p", "o", "r", "t">>

R_hello == <<"Hi there! I'm your virtual assistant. How can I help today?">>
R_price == <<"Our pricing plans: Starter $49/month ...">>
R_support == <<"I can guide you with basic support. If you want a human agent, just type *agent*.">>
R_hours == <<"Our support team is available 24/7 via chat or email.">>
R_bye == <<"You're welcome! Feel free to reach out anytime.">>

autoReplies ==
  << [keywords |-> << <<"h", "e", "l", "l", "o">>,
                      <<"h", "i">>,
                      <<"h", "e", "y">> >>,
      reply |-> R_hello],
     [keywords |-> << <<"p", "r", "i", "c", "e">>,
                      <<"c", "o", "s", "t">>,
                      <<"p", "a", "y", "m", "e", "n", "t">>,
                      <<"s", "u", "b", "s", "c", "r", "i", "b", "e">>,
                      <<"p", "r", "i", "c", "i", "n", "g">>,
                      <<"p", "l", "a", "n">>,
                      <<"p", "l", "a", "n", "s">> >>,
      reply |-> R_price],
     [keywords |-> << <<"s", "u", "p", "p", "o", "r", "t">>,
                      <<"h", "e", "l", "p">>,
                      <<"p", "r", "o", "b", "l", "e", "m">>,
                      <<"i", "s", "s", "u", "e">> >>,
      reply |-> R_support],
     [keywords |-> << <<"h", "o", "u", "r", "s">>,
                      <<"t", "i", "m", "e">>,
                      <<"o", "p", "e", "n">>,
                      <<"s", "c", "h", "e", "d", "u", "l", "e">> >>,
      reply |-> R_hours],
     [keywords |-> << <<"b", "y", "e">>,
                      <<"t", "h", "a", "n", "k", "s">>,
                      <<"t", "h", "a", "n", "k", " ", "y", "o", "u">> >>,
      reply |-> R_bye] >>

\* the null returned by getAutoReply
Null == <<"<null>">>

\* rule.keywords.some(k => normalized.includes(k))
someKeyword(rule, normalized) ==
  \E k \in 1..Len(rule.keywords) : includes(normalized, rule.keywords[k])

\* the loop of getAutoReply when a later matching rule overrides an earlier
RECURSIVE firstReply_lastWins(_, _)
firstReply_lastWins(normalized, r) ==
  IF r > Len(autoReplies) THEN Null
  ELSE LET rest == firstReply_lastWins(normalized, r + 1)
       IN IF rest # Null THEN rest
          ELSE IF someKeyword(autoReplies[r], normalized)
               THEN autoReplies[r].reply
               ELSE Null

\* the loop of getAutoReply from rule r on
RECURSIVE firstReply(_, _)
firstReply(normalized, r) ==
  IF r > Len(autoReplies) THEN Null
  ELSE IF someKeyword(autoReplies[r], normalized) THEN autoReplies[r].reply
  ELSE firstReply(normalized, r + 1)

\* getAutoReply: the reply of the first rule one of whose keywords occurs
getAutoReply(text) == firstReply(toLowerCase(text), 1)

EscalationAck ==
  <<"I've notified our support team. An agent will join you shortly.">>
Fallback ==
  <<"I'm not sure I understand. You can ask about prices, support, or type *agent* for human help.">>
Welcome == <<"Hello! How can I help you today?">>
FileAck == <<"Thank you for sending that file! How can I help you today?">>

\* the trigger test without the case folding
requestsHuman_caseSensitive(text) ==
  \/ text = W_agent
  \/ includes(text, W_talk_to_human)
  \/ includes(text, W_speak_to_human)
  \/ includes(text, W_human_support)

\* the trigger test with 'agent' matched as a substring, like the phrases
requestsHuman_agentIncluded(text) ==
  LET normalized == toLowerCase(text)
  IN \/ includes(normalized, W_agent)
     \/ includes(normalized, W_talk_to_human)
     \/ includes(normalized, W_speak_to_human)
     \/ includes(normalized, W_human_support)

\* handleBotReply, the test of its first branch: the user asks for a human
requestsHuman(text) ==
  LET normalized == toLowerCase(text)
  IN \/ normalized = W_agent
     \/ includes(normalized, W_talk_to_human)
     \/ includes(normalized, W_speak_to_human)
     \/ includes(normalized, W_human_support)

\* a handleBotReply that tries the keyword rules before the trigger test
botReplyText_rulesFirst(text) ==
  LET matchedReply == getAutoReply(text)
  IN IF matchedReply # Null THEN matchedReply
     ELSE IF requestsHuman(text) THEN EscalationAck ELSE Fallback

\* handleBotReply, the text it passes to sendBotMessage
botReplyText(text) ==
  IF requestsHuman(text) THEN EscalationAck
  ELSE LET matchedReply == getAutoReply(text)
       IN IF matchedReply # Null THEN matchedReply ELSE Fallback

\* ------------------------------------------------------------------------
\* Identifiers and inputs
\* ------------------------------------------------------------------------
\* Telegram users writing to the customer bot
TgUsers == {1}
\* Telegram users writing to the support bot
Agents == {7}

\* String(n) of a Telegram id
String(n) == CASE n = 1 -> "1" [] n = 7 -> "7" [] n = 8 -> "8" [] OTHER -> "0"

NaN == -1
\* a parseInt that reads the digits of an id wherever they stand
parseInt_anyDigits(s) ==
  CASE s = "1" -> 1 [] s = "7" -> 7 [] s = "8" -> 8 [] s = "0" -> 0
    [] s = "d1" -> 1 [] OTHER -> NaN

\* parseInt(s)
parseInt(s) ==
  CASE s = "1" -> 1 [] s = "7" -> 7 [] s = "8" -> 8 [] s = "0" -> 0
    [] OTHER -> NaN

\* message.from.first_name of an agent
firstName(a) == IF a = 7 THEN "Ann" ELSE "Bob"

\* `tg_${telegramUserId}_${Date.now()}`: a user is given one id, at the
\* time of the first message; the timestamp part is left out
TgChatId(u) == CASE u = 1 -> "tg_1" [] OTHER -> "tg_0"

\* chat ids a web client names
WebChatIds == {"w1"}
\* chat ids an agent or the dashboard may name
ChatRefs == {"w1", "tg_1"}

\* agentId and agentName payloads of the dashboard
DashAgents == {<<"d1", "Dee">>, <<Undefined, Undefined>>}

T_hi == <<"h", "i">>
T_ok == <<"o", "k">>

\* what a customer sends in the router specification: <<text, file>>,
\* file one of "none", "url" (a fetched file url), "data" (a base64 url)
WebhookInputs == {<<T_hi, "none">>, <<W_agent, "none">>}
SocketInputs == {<<T_hi, "none">>, <<<<>>, "data">>}
AgentTexts == {T_ok}

\* ------------------------------------------------------------------------
\* State
\* ------------------------------------------------------------------------
VARIABLES
  activeChats,       \* chat id -> ChatState
  agentChatMap,      \* agent telegram id -> chat id
  userChatMap,       \* telegram user id -> chat id
  registeredAgents,  \* telegram ids of the agents that sent /start
  tasks,             \* handlers suspended at an await
  ev,                \* the event handled by the last step
  out,               \* what the last step sent, emitted and answered
  chat_sessions,     \* rows of the table chat_sessions (src/src/server.ts)
  blocked,           \* agents to whom a sendMessage of the support bot fails
  supabase,          \* a database client is configured (src/src/server.ts)
  chat_messages,     \* rows of the table chat_messages (src/src/server.ts)
  appends,           \* appendMessage calls in flight (src/src/server.ts)
  now,               \* Date.now()
  topicChats,        \* chats of the variant without a database: key -> ChatState
  topics,            \* forum topics of the support group, by thread id
  handlers           \* customer handlers of the variant suspended at an await

vars ==
  <<activeChats, agentChatMap, userChatMap, registeredAgents, tasks, ev, out,
    chat_sessions, blocked, supabase, chat_messages, appends, now,
                 topicChats, topics, handlers>>

\* Map.set
Put(m, k, v) == [x \in (DOMAIN m) \cup {k} |-> IF x = k THEN v ELSE m[x]]
\* Map.delete
Del(m, k) == [x \in (DOMAIN m) \ {k} |-> m[x]]
EmptyMap == [x \in {} |-> 0]

\* a ChatState as every creation site builds it (absent requestingHuman
\* and telegramUserId are FALSE and 0; lastActivityAt: Date.now()).  nth is
\* the place the key of a new entry takes in the iteration order of the
\* Map, which is the order of insertion: no entry is ever deleted
NewChat(source, tgUser) ==
  [mode |-> "bot", agentId |-> Undefined, agentName |-> Undefined,
   messages |-> <<>>, source |-> source, requestingHuman |-> FALSE,
   telegramUserId |-> tgUser, lastActivityAt |-> now,
   nth |-> Cardinality(DOMAIN activeChats) + 1]

\* a Message
Msg(from, text, agentId, file) ==
  [from |-> from, text |-> text, agentId |-> agentId, file |-> file]

\* text of a stored user message: text || (fileUrl ? `(clip) ${fileName}` : '')
userMessageText(text, file) ==
  IF text # <<>> THEN text
  ELSE IF file # "none" THEN <<"file">> ELSE <<>>

Connected(name) == <<name, " connected">>
Disconnected(name) == <<name, " disconnected">>
UploadFailed == <<"Sorry, your file failed to upload.">>

\* storeMessage
storeMessage(chats, chatId, message) ==
  IF chatId \in DOMAIN chats
  THEN [chats EXCEPT ![chatId].messages = Append(@, message),
                     ![chatId].lastActivityAt = now]
  ELSE chats

\* one thing sent: a message through a bot, a broadcast, an answer
Sent(ch, to, kind, chat, text, mode, agent) ==
  [ch |-> ch, to |-> to, kind |-> kind, chat |-> chat, text |-> text,
   mode |-> mode, agent |-> agent]

\* tgSend and axios.post(.../sendMessage|sendPhoto|sendDocument)
tgSend(bot, to, kind, chat, text) ==
  Sent(bot, to, kind, chat, text, "", Undefined)

\* emitToDashboard
emitToDashboard(event, chat, text, mode, agent) ==
  Sent("io", 0, event, chat, text, mode, agent)

\* res.sendStatus / res.json / res.status(n).json
respond(kind) == Sent("http", 0, kind, "", <<>>, "", Undefined)

\* socket.emit('error')
socketError == Sent("socket", 0, "error", "", <<>>, "", Undefined)

\* the members of a set of numbers in increasing order.  The loops over
\* registeredAgents visit the agents in insertion order; the order of
\* sends to different agents is not observed, so one order stands for all
RECURSIVE InOrder(_)
InOrder(S) ==
  IF S = {} THEN <<>>
  ELSE LET x == CHOOSE y \in S : \A z \in S : y <= z
       IN <<x>> \o InOrder(S \ {x})

Event(op, stage, chat, agent, text, file, path) ==
  [op |-> op, stage |-> stage, chat |-> chat, agent |-> agent,
   text |-> text, file |-> file,
   known |-> chat \in DOMAIN activeChats,
   prevMode |-> IF chat \in DOMAIN activeChats
                THEN activeChats[chat].mode ELSE "",
   prevLen |-> IF chat \in DOMAIN activeChats
               THEN Len(activeChats[chat].messages) ELSE 0,
   path |-> path, fault |-> "none", outcome |-> "done"]

\* the event of a handler whose external calls (sendMessage, sendPhoto,
\* sendDocument) fail when delivered is false; outcome tells how the handler
\* ended: "done", "caught" (an exception reached the catch of the handler) or
\* "unhandled" (the promise of the handler was rejected)
Faulted(e, delivered, outcome) ==
  [e EXCEPT !.fault = IF delivered THEN "none" ELSE "send",
            !.outcome = outcome]

Task(op, pc, chat, text, file, reply, esc) ==
  [op |-> op, pc |-> pc, chat |-> chat, text |-> text, file |-> file,
   reply |-> reply, esc |-> esc]

\* the state after construction, but for the database client
InitMemory ==
  /\ activeChats = EmptyMap
  /\ agentChatMap = EmptyMap
  /\ userChatMap = EmptyMap
  /\ registeredAgents = {}
  /\ tasks = <<>>
  /\ ev = [op |-> "init", stage |-> "", chat |-> "", agent |-> Undefined, text |-> <<>>,
           file |-> "none", known |-> FALSE, prevMode |-> "", prevLen |-> 0,
           path |-> "", fault |-> "none", outcome |-> "done"]
  /\ out = <<>>
  /\ chat_sessions = <<>>
  /\ blocked = {}
  /\ chat_messages = <<>>
  /\ appends = <<>>
  /\ now = 0
  /\ topicChats = EmptyMap
  /\ topics = <<>>
  /\ handlers = <<>>

Init ==
  /\ InitMemory
  /\ supabase = TRUE

\* ------------------------------------------------------------------------
\* Helpers of the user-side handlers
\* ------------------------------------------------------------------------
\* notifyAgents that leaves the message out of its notification
notifyAgents_noQuote(chats, agents, chatId, message) ==
  IF chatId \notin DOMAIN chats \/ agents = {} THEN <<>>
  ELSE [i \in 1..Cardinality(agents) |->
          tgSend("supportBot", InOrder(agents)[i], "new_chat", chatId, <<>>)]

\* notifyAgents(chatId, message, true): one message with an 'Open Chat'
\* button to every registered agent; it quotes the user's message
notifyAgents(chats, agents, chatId, message) ==
  IF chatId \notin DOMAIN chats \/ agents = {} THEN <<>>
  ELSE [i \in 1..Cardinality(agents) |->
          tgSend("supportBot", InOrder(agents)[i], "new_chat", chatId, message)]

\* the loop when a failed sendMessage ends it: the agents after the first
\* one whose send fails are not notified
supportRequested_stopsAtFailure(agents, chatId) ==
  LET order == InOrder(agents)
      reached == {i \in 1..Len(order) :
                    \A j \in 1..(i - 1) : order[j] \notin blocked}
  IN [i \in 1..Cardinality(reached) |->
        tgSend("supportBot", order[i], "support_requested", chatId, <<>>)]

\* the SUPPORT REQUESTED message to every registered agent: each
\* sendMessage has its own try/catch, so every agent is tried, whether or
\* not an earlier send failed
supportRequested(agents, chatId) ==
  [i \in 1..Cardinality(agents) |->
     tgSend("supportBot", InOrder(agents)[i], "support_requested", chatId, <<>>)]

\* sendBotMessage after its tgSend: store and emit the bot message
sendBotMessage(chats, chatId, text) ==
  [chats |-> storeMessage(chats, chatId, Msg("bot", text, Undefined, "none")),
   out |-> <<emitToDashboard("bot_message", chatId, text, "", Undefined)>>]

\* handleBotReply up to its first await on the network.  For a Telegram
\* session the handler is suspended in tgSend with the reply still to be
\* stored (task); for a web session the reply is stored at once.
handleBotReply(op, chats, agents, chatId, text, file, source) ==
  IF chatId \notin DOMAIN chats \/ chats[chatId].mode # "bot"
  THEN [chats |-> chats, out |-> <<>>, task |-> <<>>, path |-> "skip"]
  ELSE
    LET esc == requestsHuman(text)
        reply == botReplyText(text)
        c1 == IF esc THEN [chats EXCEPT ![chatId].requestingHuman = TRUE]
              ELSE chats
        o1 == IF esc
              THEN <<emitToDashboard("human_support_requested", chatId,
                                     <<>>, "", Undefined)>>
              ELSE <<>>
        viaTelegram == source = "telegram" /\ c1[chatId].telegramUserId # 0
        sb == sendBotMessage(c1, chatId, reply)
    IN IF viaTelegram
       THEN [chats |-> c1,
             out |-> o1 \o <<tgSend("customerBot", c1[chatId].telegramUserId,
                                    "bot_reply", chatId, reply)>>,
             task |-> <<Task(op, "reply", chatId, text, file, reply, esc)>>,
             path |-> "reply"]
       ELSE [chats |-> sb.chats,
             out |-> o1 \o sb.out
                     \o (IF esc THEN supportRequested(agents, chatId)
                         ELSE <<>>),
             task |-> <<>>,
             path |-> "reply"]

\* customer webhook from "2. Store user message" on
routeWebhook(chats, agents, chatId, text, file, delivered) ==
  LET c1 == storeMessage(chats, chatId,
              Msg("user", userMessageText(text, file), Undefined, file))
      o1 == <<emitToDashboard("message_from_user", chatId,
                              userMessageText(text, file), "", Undefined)>>
      chatState == chats[chatId]
  IN IF chatState.mode = "human" /\ Truthy(chatState.agentId)
     THEN [chats |-> c1,
           out |-> o1
                   \o (IF parseInt(chatState.agentId) # NaN
                       THEN <<tgSend("supportBot", parseInt(chatState.agentId),
                                     "forward", chatId, text)>>
                       ELSE <<>>)
                   \o <<respond("200")>>,
           task |-> <<>>, path |-> "forward",
           \* sendPhoto and sendDocument are awaited bare: their failure
           \* reaches the catch of the route, which answers 200
           outcome |-> IF ~delivered /\ file # "none"
                          /\ parseInt(chatState.agentId) # NaN
                       THEN "caught" ELSE "done"]
     ELSE LET h == handleBotReply("webhook", c1, agents, chatId, text, file,
                                  "telegram")
          IN [chats |-> h.chats,
              out |-> o1 \o h.out
                      \o (IF h.task = <<>> THEN <<respond("200")>> ELSE <<>>),
              task |-> h.task, path |-> h.path, outcome |-> "done"]

\* socket user_message from the store of the user message on.  The upload
\* of a base64 file is taken in the same step as the store.
routeUserMessage(chats, agents, chatId, text, file, uploadOk, delivered) ==
  LET c1 == storeMessage(chats, chatId,
              Msg("user", userMessageText(text, file), Undefined, file))
      o1 == <<emitToDashboard("message_from_user", chatId, text, "",
                              Undefined)>>
      chat == chats[chatId]
      agentTelegramId == parseInt(chat.agentId)
  IN IF chat.mode = "human" /\ Truthy(chat.agentId)
     THEN IF agentTelegramId # NaN /\ file = "data" /\ ~uploadOk
          THEN [chats |-> storeMessage(c1, chatId,
                            Msg("system", UploadFailed, Undefined, "none")),
                out |-> o1
                        \o <<tgSend("supportBot", agentTelegramId,
                                    "upload_failed", chatId, text),
                             emitToDashboard("message_from_bot", chatId,
                                             UploadFailed, "", Undefined)>>,
                task |-> <<>>, path |-> "upload_failed", outcome |-> "done"]
          ELSE [chats |-> c1,
                out |-> o1
                        \o (IF agentTelegramId # NaN
                            THEN <<tgSend("supportBot", agentTelegramId,
                                          "forward", chatId, text)>>
                            ELSE <<>>),
                task |-> <<>>, path |-> "forward",
                \* the handler has no try: a failure of the bare sendPhoto
                \* or sendDocument rejects its promise
                outcome |-> IF ~delivered /\ file # "none"
                               /\ agentTelegramId # NaN
                            THEN "unhandled" ELSE "done"]
     ELSE IF text # <<>> \/ file = "none"
          THEN LET h == handleBotReply("user_message", c1, agents, chatId,
                                       text, file, "web")
               IN [chats |-> h.chats, out |-> o1 \o h.out, task |-> h.task,
                   path |-> h.path, outcome |-> "done"]
          ELSE [chats |-> storeMessage(c1, chatId,
                            Msg("bot", FileAck, Undefined, "none")),
                out |-> o1
                        \o <<emitToDashboard("message_from_bot", chatId,
                                             FileAck, "", Undefined)>>,
                task |-> <<>>, path |-> "fileack", outcome |-> "done"]

\* number of stored messages
RECURSIVE Stored(_, _)
Stored(chats, ids) ==
  IF ids = {} THEN 0
  ELSE LET c == CHOOSE x \in ids : TRUE
       IN Len(chats[c].messages) + Stored(chats, ids \ {c})

\* messages the suspended handlers have yet to store
RECURSIVE Reserved(_)
Reserved(ts) ==
  IF ts = <<>> THEN 0
  ELSE (IF Head(ts).pc \in {"notify", "lookup"} THEN 2 ELSE 1)
       + Reserved(Tail(ts))

\* the logs, with what is still to be stored, hold at most n messages
FitsIn(n) == Stored(activeChats, DOMAIN activeChats) + Reserved(tasks) <= n

\* there is room for one message more (what Fits' asks of a step that
\* stores a message, asked before the step is worked out)
HasRoom == Stored(activeChats, DOMAIN activeChats) + Reserved(tasks) < MaxMsgs

\* the logs, with what is still to be stored, stay within the bound
Fits == FitsIn(MaxMsgs)

\* at most MaxTasks handlers are suspended at an await
Serial == Len(tasks) <= MaxTasks

\* tasks without the i-th
Without(seq, i) == SubSeq(seq, 1, i - 1) \o SubSeq(seq, i + 1, Len(seq))

\* ------------------------------------------------------------------------
\* Customer bot webhook: app.post('/webhook')
\* ------------------------------------------------------------------------
CustomerWebhook(u, text, file, delivered) ==
  /\ LET known == u \in DOMAIN userChatMap /\ userChatMap[u] \in DOMAIN activeChats
         chatId == IF known THEN userChatMap[u] ELSE TgChatId(u)
         created == Put(activeChats, chatId, NewChat("telegram", u))
         announce == <<emitToDashboard("chat_mode_changed", chatId, <<>>, "bot",
                                       Undefined)>>
         message == IF text # <<>> THEN text ELSE <<"[Chat started]">>
     IN /\ IF ~known /\ registeredAgents # {}
           THEN \* suspended in notifyAgents
                /\ Len(tasks) < MaxHandlers
                /\ activeChats' = created
                /\ userChatMap' = Put(userChatMap, u, chatId)
                /\ tasks' = Append(tasks, Task("webhook", "notify", chatId,
                                               text, file, message, FALSE))
                /\ out' = announce
                /\ ev' = Event("webhook", "arrive", chatId, Undefined, text, file,
                               "notify")
           ELSE LET r == routeWebhook(IF known THEN activeChats ELSE created,
                                      registeredAgents, chatId, text, file,
                                      delivered)
                IN /\ Len(tasks) + Len(r.task) <= MaxHandlers
                   /\ activeChats' = r.chats
                   /\ userChatMap' = IF known THEN userChatMap
                                     ELSE Put(userChatMap, u, chatId)
                   /\ tasks' = tasks \o r.task
                   /\ out' = (IF known THEN <<>> ELSE announce) \o r.out
                   /\ ev' = Faulted(Event("webhook", "arrive", chatId,
                                                Undefined, text, file, r.path),
                                          delivered, r.outcome)
        /\ UNCHANGED <<agentChatMap, registeredAgents>>
  /\ UNCHANGED <<chat_sessions, blocked, supabase, chat_messages, appends, now,
                 topicChats, topics, handlers>>

\* ------------------------------------------------------------------------
\* socket.on('user_message')
\* ------------------------------------------------------------------------
SocketUserMessage(chatId, text, file, uploadOk, delivered) ==
  /\ LET known == chatId \in DOMAIN activeChats
         created == Put(activeChats, chatId, NewChat("web", 0))
         announce == <<emitToDashboard("chat_mode_changed", chatId, <<>>, "bot",
                                       Undefined)>>
     IN /\ IF ~known /\ registeredAgents # {}
           THEN /\ Len(tasks) < MaxHandlers
                /\ activeChats' = created
                /\ tasks' = Append(tasks, Task("user_message", "notify", chatId,
                                               text, file, text, FALSE))
                /\ out' = announce
                /\ ev' = Event("user_message", "arrive", chatId, Undefined, text,
                               file, "notify")
           ELSE LET r == routeUserMessage(IF known THEN activeChats ELSE created,
                                          registeredAgents, chatId, text, file,
                                          uploadOk, delivered)
                IN /\ Len(tasks) + Len(r.task) <= MaxHandlers
                   /\ activeChats' = r.chats
                   /\ tasks' = tasks \o r.task
                   /\ out' = (IF known THEN <<>> ELSE announce) \o r.out
                   /\ ev' = Faulted(Event("user_message", "arrive", chatId,
                                                Undefined, text, file, r.path),
                                          delivered, r.outcome)
        /\ UNCHANGED <<agentChatMap, userChatMap, registeredAgents>>
  /\ UNCHANGED <<chat_sessions, blocked, supabase, chat_messages, appends, now,
                 topicChats, topics, handlers>>

\* ------------------------------------------------------------------------
\* Continuations of the suspended user-side handlers
\* ------------------------------------------------------------------------
\* notifyAgents has sent its messages: the handler goes on with the store
ResumeNotify(i, uploadOk, delivered) ==
  /\ i \in 1..Len(tasks)
  /\ tasks[i].pc = "notify"
  /\ LET t == tasks[i]
         notes == notifyAgents(activeChats, registeredAgents, t.chat, t.reply)
         r == IF t.op = "webhook"
              THEN routeWebhook(activeChats, registeredAgents, t.chat,
                                t.text, t.file, delivered)
              ELSE routeUserMessage(activeChats, registeredAgents, t.chat,
                                    t.text, t.file, uploadOk, delivered)
     IN /\ activeChats' = r.chats
        /\ tasks' = Without(tasks, i) \o r.task
        /\ out' = notes \o r.out
        /\ ev' = Faulted(Event(t.op, "notified", t.chat, Undefined, t.text,
                                     t.file, r.path),
                               delivered, r.outcome)
  /\ UNCHANGED <<agentChatMap, userChatMap, registeredAgents>>
  /\ UNCHANGED <<chat_sessions, blocked, supabase, chat_messages, appends, now,
                 topicChats, topics, handlers>>

\* tgSend of the bot reply has returned: sendBotMessage stores the reply,
\* handleBotReply notifies the agents of an escalation
ResumeReply(i) ==
  /\ i \in 1..Len(tasks)
  /\ tasks[i].pc = "reply"
  /\ LET t == tasks[i]
         sb == sendBotMessage(activeChats, t.chat, t.reply)
     IN /\ activeChats' = sb.chats
        /\ tasks' = Without(tasks, i)
        /\ out' = sb.out
                  \o (IF t.esc THEN supportRequested(registeredAgents, t.chat)
                      ELSE <<>>)
                  \o (IF t.op = "webhook" THEN <<respond("200")>> ELSE <<>>)
        /\ ev' = Event(t.op, "replied", t.chat, Undefined, t.text, t.file,
                       "stored")
  /\ UNCHANGED <<agentChatMap, userChatMap, registeredAgents>>
  /\ UNCHANGED <<chat_sessions, blocked, supabase, chat_messages, appends, now,
                 topicChats, topics, handlers>>

\* ------------------------------------------------------------------------
\* Support bot webhook: app.post('/telegram/support/webhook')
\* ------------------------------------------------------------------------
\* the "open" logic shared by the /open command and the 'Open Chat' button
openChat(chats, a, chatId) ==
  IF chatId \in DOMAIN chats
  THEN storeMessage(
         [chats EXCEPT ![chatId].mode = "human",
                       ![chatId].agentId = String(a),
                       ![chatId].agentName = firstName(a),
                       ![chatId].requestingHuman = FALSE],
         chatId, Msg("system", Connected(firstName(a)), Undefined, "none"))
  ELSE chats

\* what the agent is sent after an open: the header and the history, or
\* the not-found message
openReport(chats, a, chatId) ==
  IF chatId \in DOMAIN chats
  THEN <<tgSend("supportBot", a, "opened", chatId, <<>>)>>
       \o [i \in 1..Len(chats[chatId].messages) |->
             tgSend("supportBot", a, "history", chatId,
                    chats[chatId].messages[i].text)]
  ELSE <<tgSend("supportBot", a, "not_found", chatId, <<>>)>>

\* a callback branch whose answerCallbackQuery is awaited outside the try
\* of the route: its failure leaves the request without an answer
SupportCallback_unanswered(a, chatId, answered) ==
  /\ IF ~answered
     THEN /\ out' = <<>>
          /\ ev' = [Event("callback", "arrive", chatId, String(a), <<>>,
                          "none", "threw")
                      EXCEPT !.fault = "answer", !.outcome = "unhandled"]
          /\ UNCHANGED <<activeChats, agentChatMap>>
     ELSE /\ agentChatMap' = Put(agentChatMap, a, chatId)
          /\ activeChats' = openChat(activeChats, a, chatId)
          /\ out' = <<emitToDashboard("chat_mode_changed", chatId, <<>>,
                                      "human", String(a))>>
                    \o openReport(activeChats', a, chatId)
                    \o <<respond("200")>>
          /\ ev' = Event("callback", "arrive", chatId, String(a), <<>>,
                         "none", "open")
  /\ UNCHANGED <<userChatMap, registeredAgents, tasks>>
  /\ UNCHANGED <<chat_sessions, blocked, supabase, chat_messages, appends, now,
                 topicChats, topics, handlers>>

\* callback_query of an 'Open Chat' button; answered is the outcome of the
\* answerCallbackQuery call, which is awaited outside any inner try
SupportCallback(a, chatId, answered) ==
  /\ IF ~answered
     THEN /\ out' = <<respond("200")>>
          /\ ev' = [Event("callback", "arrive", chatId, String(a), <<>>,
                          "none", "threw")
                      EXCEPT !.fault = "answer", !.outcome = "caught"]
          /\ UNCHANGED <<activeChats, agentChatMap>>
     ELSE /\ agentChatMap' = Put(agentChatMap, a, chatId)
          /\ activeChats' = openChat(activeChats, a, chatId)
          /\ out' = <<emitToDashboard("chat_mode_changed", chatId, <<>>,
                                      "human", String(a))>>
                    \o openReport(activeChats', a, chatId)
                    \o <<respond("200")>>
          /\ ev' = Event("callback", "arrive", chatId, String(a), <<>>,
                         "none", "open")
  /\ UNCHANGED <<userChatMap, registeredAgents, tasks>>
  /\ UNCHANGED <<chat_sessions, blocked, supabase, chat_messages, appends, now,
                 topicChats, topics, handlers>>

\* /start
SupportStart(a) ==
  /\ registeredAgents' = registeredAgents \cup {a}
  /\ out' = <<tgSend("supportBot", a, "welcome", "", <<>>), respond("200")>>
  /\ ev' = Event("/start", "arrive", "", String(a), <<>>, "none", "")
  /\ UNCHANGED <<activeChats, agentChatMap, userChatMap, tasks>>
  /\ UNCHANGED <<chat_sessions, blocked, supabase, chat_messages, appends, now,
                 topicChats, topics, handlers>>

\* /open without a chat id
SupportOpenUsage(a) ==
  /\ out' = <<tgSend("supportBot", a, "usage", "", <<>>), respond("200")>>
  /\ ev' = Event("/open", "arrive", "", String(a), <<>>, "none", "usage")
  /\ UNCHANGED <<activeChats, agentChatMap, userChatMap, registeredAgents,
                 tasks>>
  /\ UNCHANGED <<chat_sessions, blocked, supabase, chat_messages, appends, now,
                 topicChats, topics, handlers>>

\* /open <chat_id>
SupportOpen(a, chatId) ==
  /\ agentChatMap' = Put(agentChatMap, a, chatId)
  /\ activeChats' = openChat(activeChats, a, chatId)
  /\ out' = <<emitToDashboard("chat_mode_changed", chatId, <<>>, "human",
                              String(a))>>
            \o openReport(activeChats', a, chatId)
            \o <<respond("200")>>
  /\ ev' = Event("/open", "arrive", chatId, String(a), <<>>, "none", "open")
  /\ UNCHANGED <<userChatMap, registeredAgents, tasks>>
  /\ UNCHANGED <<chat_sessions, blocked, supabase, chat_messages, appends, now,
                 topicChats, topics, handlers>>

\* /release
SupportRelease(a) ==
  /\ IF a \notin DOMAIN agentChatMap
     THEN /\ out' = <<tgSend("supportBot", a, "no_chat", "", <<>>),
                      respond("200")>>
          /\ ev' = Event("/release", "arrive", "", String(a), <<>>, "none",
                         "no_chat")
          /\ UNCHANGED <<activeChats, agentChatMap, userChatMap,
                         registeredAgents, tasks>>
     ELSE LET currentChat == agentChatMap[a]
              stored == storeMessage(activeChats, currentChat,
                          Msg("system", Disconnected(firstName(a)), Undefined,
                              "none"))
          IN /\ agentChatMap' = Del(agentChatMap, a)
             /\ activeChats' =
                  IF currentChat \in DOMAIN activeChats
                  THEN [stored EXCEPT ![currentChat].mode = "bot",
                                      ![currentChat].agentId = Undefined,
                                      ![currentChat].agentName = Undefined,
                                      ![currentChat].requestingHuman = FALSE]
                  ELSE activeChats
             /\ out' = <<emitToDashboard("chat_mode_changed", currentChat, <<>>,
                                         "bot", Undefined),
                         tgSend("supportBot", a, "released", currentChat, <<>>),
                         respond("200")>>
             /\ ev' = Event("/release", "arrive", currentChat, String(a), <<>>,
                            "none", "release")
             /\ UNCHANGED <<userChatMap, registeredAgents, tasks>>
  /\ UNCHANGED <<chat_sessions, blocked, supabase, chat_messages, appends, now,
                 topicChats, topics, handlers>>

\* any other message of an agent: a reply for the chat the agent has open
SupportText(a, text, file, delivered) ==
  /\ IF a \notin DOMAIN agentChatMap
     THEN /\ out' = <<tgSend("supportBot", a, "hint", "", <<>>), respond("200")>>
          /\ ev' = Event("agent_text", "arrive", "", String(a), text, "none",
                         "no_chat")
          /\ UNCHANGED <<activeChats, agentChatMap, userChatMap,
                         registeredAgents, tasks>>
     ELSE LET currentChat == agentChatMap[a]
          IN IF currentChat \notin DOMAIN activeChats
             THEN /\ out' = <<tgSend("supportBot", a, "not_found", currentChat,
                                     <<>>),
                              respond("200")>>
                  /\ ev' = Event("agent_text", "arrive", currentChat, String(a),
                                 text, "none", "not_found")
                  /\ UNCHANGED <<activeChats, agentChatMap, userChatMap,
                                 registeredAgents, tasks>>
             ELSE LET chat == activeChats[currentChat]
                      viaTelegram == chat.source = "telegram"
                                       /\ chat.telegramUserId # 0
                      \* sendPhoto and sendDocument are awaited bare: their
                      \* failure skips the broadcast and reaches the catch
                      threw == viaTelegram /\ file # "none" /\ ~delivered
                  IN /\ activeChats' = storeMessage(activeChats, currentChat,
                                         Msg("agent", userMessageText(text, file),
                                             String(a), file))
                     /\ out' = (IF viaTelegram
                                THEN <<tgSend("customerBot", chat.telegramUserId,
                                              "agent_msg", currentChat, text)>>
                                ELSE <<>>)
                               \o (IF threw THEN <<>>
                                   ELSE <<emitToDashboard("message_from_agent",
                                            currentChat,
                                            userMessageText(text, file), "",
                                            String(a))>>)
                               \o <<respond("200")>>
                     /\ ev' = Faulted(Event("agent_text", "arrive", currentChat,
                                            String(a), text, file, "sent"),
                                      delivered,
                                      IF threw THEN "caught" ELSE "done")
                     /\ UNCHANGED <<agentChatMap, userChatMap, registeredAgents,
                                    tasks>>
  /\ UNCHANGED <<chat_sessions, blocked, supabase, chat_messages, appends, now,
                 topicChats, topics, handlers>>

\* ------------------------------------------------------------------------
\* Dashboard: HTTP endpoints and socket events of the agents
\* ------------------------------------------------------------------------
\* the agent message of /send and send_message: sent to a Telegram user,
\* stored, broadcast (the await on tgSend ahead of the store is taken in
\* the same step)
sendAgentMessage(chats, chatId, message, agentId) ==
  [chats |-> storeMessage(chats, chatId,
                          Msg("agent", message, agentId, "none")),
   out |-> (IF chatId \in DOMAIN chats
               /\ chats[chatId].source = "telegram"
               /\ chats[chatId].telegramUserId # 0
            THEN <<tgSend("customerBot", chats[chatId].telegramUserId,
                          "agent_msg", chatId, message)>>
            ELSE <<>>)
           \o <<emitToDashboard("message_from_agent", chatId, message, "",
                                agentId)>>]

\* a takeover that leaves requestingHuman as it finds it
takeover_keepsRequest(chats, chatId, agentId, agentName) ==
  IF chatId \in DOMAIN chats
  THEN LET previousMode == chats[chatId].mode
           c1 == [chats EXCEPT ![chatId].mode = "human",
                               ![chatId].agentId = agentId,
                               ![chatId].agentName = agentName]
       IN IF previousMode = "bot" /\ Truthy(agentName)
          THEN storeMessage(c1, chatId,
                 Msg("system", Connected(agentName), Undefined, "none"))
          ELSE c1
  ELSE chats

\* the body shared by app.post('/takeover') and socket.on('takeover')
takeover(chats, chatId, agentId, agentName) ==
  IF chatId \in DOMAIN chats
  THEN LET previousMode == chats[chatId].mode
           c1 == [chats EXCEPT ![chatId].mode = "human",
                               ![chatId].agentId = agentId,
                               ![chatId].agentName = agentName,
                               ![chatId].requestingHuman = FALSE]
       IN IF previousMode = "bot" /\ Truthy(agentName)
          THEN storeMessage(c1, chatId,
                 Msg("system", Connected(agentName), Undefined, "none"))
          ELSE c1
  ELSE chats

\* app.post('/send'); a request without chatId or message is answered 400
HttpSend(chatId, message, agentId, delivered) ==
  /\ LET r == sendAgentMessage(activeChats, chatId, message, agentId)
     IN /\ activeChats' = r.chats
        /\ out' = r.out \o <<respond("ok")>>
  /\ ev' = Faulted(Event("http_send", "arrive", chatId, agentId, message,
                         "none", ""),
                   delivered, "done")
  /\ UNCHANGED <<agentChatMap, userChatMap, registeredAgents, tasks>>
  /\ UNCHANGED <<chat_sessions, blocked, supabase, chat_messages, appends, now,
                 topicChats, topics, handlers>>

\* app.post('/takeover')
HttpTakeover(chatId, agentId, agentName) ==
  /\ IF ~Truthy(agentId)
     THEN /\ out' = <<respond("400")>>
          /\ ev' = Event("http_takeover", "arrive", chatId, agentId, <<>>,
                         "none", "400")
          /\ UNCHANGED activeChats
     ELSE /\ activeChats' = takeover(activeChats, chatId, agentId, agentName)
          /\ out' = <<emitToDashboard("chat_mode_changed", chatId, <<>>,
                                      "human", agentId),
                      respond("ok")>>
          /\ ev' = Event("http_takeover", "arrive", chatId, agentId, <<>>,
                         "none", "takeover")
  /\ UNCHANGED <<agentChatMap, userChatMap, registeredAgents, tasks>>
  /\ UNCHANGED <<chat_sessions, blocked, supabase, chat_messages, appends, now,
                 topicChats, topics, handlers>>

\* app.post('/release')
HttpRelease(chatId) ==
  /\ activeChats' =
       IF chatId \in DOMAIN activeChats
       THEN [activeChats EXCEPT ![chatId].mode = "bot",
                                ![chatId].agentId = Undefined,
                                ![chatId].agentName = Undefined,
                                ![chatId].requestingHuman = FALSE]
       ELSE activeChats
  /\ out' = <<emitToDashboard("chat_mode_changed", chatId, <<>>, "bot",
                              Undefined),
              respond("ok")>>
  /\ ev' = Event("http_release", "arrive", chatId, Undefined, <<>>, "none",
                 "release")
  /\ UNCHANGED <<agentChatMap, userChatMap, registeredAgents, tasks>>
  /\ UNCHANGED <<chat_sessions, blocked, supabase, chat_messages, appends, now,
                 topicChats, topics, handlers>>

\* socket.on('send_message')
SocketSendMessage(chatId, message, agentId, delivered) ==
  /\ LET r == sendAgentMessage(activeChats, chatId, message, agentId)
     IN /\ activeChats' = r.chats
        /\ out' = r.out
  /\ ev' = Faulted(Event("send_message", "arrive", chatId, agentId, message,
                         "none", ""),
                   delivered, "done")
  /\ UNCHANGED <<agentChatMap, userChatMap, registeredAgents, tasks>>
  /\ UNCHANGED <<chat_sessions, blocked, supabase, chat_messages, appends, now,
                 topicChats, topics, handlers>>

\* socket.on('takeover')
SocketTakeover(chatId, agentId, agentName) ==
  /\ activeChats' = takeover(activeChats, chatId, agentId, agentName)
  /\ out' = <<emitToDashboard("chat_mode_changed", chatId, <<>>, "human",
                              agentId)>>
  /\ ev' = Event("takeover", "arrive", chatId, agentId, <<>>, "none",
                 "takeover")
  /\ UNCHANGED <<agentChatMap, userChatMap, registeredAgents, tasks>>
  /\ UNCHANGED <<chat_sessions, blocked, supabase, chat_messages, appends, now,
                 topicChats, topics, handlers>>

\* socket.on('release')
SocketRelease(chatId) ==
  /\ activeChats' =
       IF chatId \in DOMAIN activeChats
       THEN LET agentName == activeChats[chatId].agentName
                stored == IF Truthy(agentName)
                          THEN storeMessage(activeChats, chatId,
                                 Msg("system", Disconnected(agentName),
                                     Undefined, "none"))
                          ELSE activeChats
            IN [stored EXCEPT ![chatId].mode = "bot",
                              ![chatId].agentId = Undefined,
                              ![chatId].agentName = Undefined,
                              ![chatId].requestingHuman = FALSE]
       ELSE activeChats
  /\ out' = <<emitToDashboard("chat_mode_changed", chatId, <<>>, "bot",
                              Undefined)>>
  /\ ev' = Event("release", "arrive", chatId, Undefined, <<>>, "none",
                 "release")
  /\ UNCHANGED <<agentChatMap, userChatMap, registeredAgents, tasks>>
  /\ UNCHANGED <<chat_sessions, blocked, supabase, chat_messages, appends, now,
                 topicChats, topics, handlers>>

\* ------------------------------------------------------------------------
\* Web client: session endpoint and socket events of the user
\* ------------------------------------------------------------------------
\* a session route that makes the session anew whether the registry has
\* it or not
ApiChatSession_resets(chatId) ==
  /\ activeChats' = Put(activeChats, chatId, NewChat("web", 0))
  /\ out' = <<respond(IF chatId \in DOMAIN activeChats THEN "found"
                      ELSE "created")>>
  /\ ev' = Event("api_session", "arrive", chatId, Undefined, <<>>, "none", "")
  /\ UNCHANGED <<agentChatMap, userChatMap, registeredAgents, tasks>>
  /\ UNCHANGED <<chat_sessions, blocked, supabase, chat_messages, appends, now,
                 topicChats, topics, handlers>>

\* app.post('/api/chat/session')
ApiChatSession(chatId) ==
  /\ activeChats' = IF chatId \in DOMAIN activeChats THEN activeChats
                    ELSE Put(activeChats, chatId, NewChat("web", 0))
  /\ out' = <<respond(IF chatId \in DOMAIN activeChats THEN "found"
                      ELSE "created")>>
  /\ ev' = Event("api_session", "arrive", chatId, Undefined, <<>>, "none", "")
  /\ UNCHANGED <<agentChatMap, userChatMap, registeredAgents, tasks>>
  /\ UNCHANGED <<chat_sessions, blocked, supabase, chat_messages, appends, now,
                 topicChats, topics, handlers>>

\* socket.on('create_new_chat')
SocketCreateNewChat(chatId) ==
  /\ LET fresh == NewChat("web", 0)
         \* Map.set on a key the Map has keeps the place of the key
         chat == IF chatId \in DOMAIN activeChats
                 THEN [fresh EXCEPT !.nth = activeChats[chatId].nth]
                 ELSE fresh
     IN activeChats' = storeMessage(Put(activeChats, chatId, chat), chatId,
                                    Msg("bot", Welcome, Undefined, "none"))
  /\ out' = <<emitToDashboard("chat_mode_changed", chatId, <<>>, "bot",
                              Undefined),
              emitToDashboard("bot_message", chatId, Welcome, "", Undefined)>>
  /\ ev' = Event("create_new_chat", "arrive", chatId, Undefined, <<>>, "none",
                 "")
  /\ UNCHANGED <<agentChatMap, userChatMap, registeredAgents, tasks>>
  /\ UNCHANGED <<chat_sessions, blocked, supabase, chat_messages, appends, now,
                 topicChats, topics, handlers>>

\* socket.on('user_info')
SocketUserInfo(chatId) ==
  /\ activeChats' =
       IF chatId \in DOMAIN activeChats THEN activeChats
       ELSE storeMessage(Put(activeChats, chatId, NewChat("web", 0)), chatId,
                         Msg("bot", Welcome, Undefined, "none"))
  /\ out' = (IF chatId \in DOMAIN activeChats THEN <<>>
             ELSE <<emitToDashboard("bot_message", chatId, Welcome, "",
                                    Undefined)>>)
            \o <<emitToDashboard("chat_mode_changed", chatId, <<>>,
                                 activeChats'[chatId].mode,
                                 activeChats'[chatId].agentId)>>
  /\ ev' = Event("user_info", "arrive", chatId, Undefined, <<>>, "none", "")
  /\ UNCHANGED <<agentChatMap, userChatMap, registeredAgents, tasks>>
  /\ UNCHANGED <<chat_sessions, blocked, supabase, chat_messages, appends, now,
                 topicChats, topics, handlers>>

\* socket.on('request_human') and socket.on('request_human_support'): the
\* two handlers have the same body.  sendBotMessage is not awaited: for a
\* Telegram session its store follows the tgSend, as a task of its own.
SocketRequestHuman(event, chatId) ==
  /\ IF chatId \notin DOMAIN activeChats
     THEN /\ out' = <<>>
          /\ UNCHANGED <<activeChats, tasks>>
     ELSE LET chat == activeChats[chatId]
              c1 == [activeChats EXCEPT ![chatId].requestingHuman = TRUE]
              o1 == <<emitToDashboard("human_support_requested", chatId,
                                      <<>>, "", Undefined)>>
              sb == sendBotMessage(c1, chatId, EscalationAck)
          IN IF chat.source = "telegram" /\ chat.telegramUserId # 0
             THEN /\ Len(tasks) < MaxHandlers
                  /\ activeChats' = c1
                  /\ tasks' = Append(tasks,
                                Task(event, "reply", chatId, <<>>, "none",
                                     EscalationAck, FALSE))
                  /\ out' = o1
                            \o <<tgSend("customerBot", chat.telegramUserId,
                                        "bot_reply", chatId, EscalationAck)>>
                            \o supportRequested(registeredAgents, chatId)
             ELSE /\ activeChats' = sb.chats
                  /\ tasks' = tasks
                  /\ out' = o1 \o sb.out
                            \o supportRequested(registeredAgents, chatId)
  /\ ev' = Event(event, "arrive", chatId, Undefined, <<>>, "none", "")
  /\ UNCHANGED <<agentChatMap, userChatMap, registeredAgents>>
  /\ UNCHANGED <<chat_sessions, blocked, supabase, chat_messages, appends, now,
                 topicChats, topics, handlers>>

\* ------------------------------------------------------------------------
\* The router specification
\* ------------------------------------------------------------------------
Next ==
  \/ \E u \in TgUsers, i \in WebhookInputs :
       CustomerWebhook(u, i[1], i[2], TRUE) /\ Serial' /\ Fits'
  \/ \E c \in WebChatIds, i \in SocketInputs, uploadOk \in BOOLEAN :
       SocketUserMessage(c, i[1], i[2], uploadOk, TRUE) /\ Serial' /\ Fits'
  \/ \E i \in 1..MaxTasks, uploadOk \in BOOLEAN :
       ResumeNotify(i, uploadOk, TRUE)
  \/ \E i \in 1..MaxTasks : ResumeReply(i)
  \/ \E a \in Agents, c \in ChatRefs :
       SupportCallback(a, c, TRUE) /\ Fits'
  \/ \E a \in Agents : SupportStart(a) /\ Fits'
  \/ \E a \in Agents : SupportOpenUsage(a) /\ Fits'
  \/ \E a \in Agents, c \in ChatRefs : SupportOpen(a, c) /\ Fits'
  \/ \E a \in Agents : SupportRelease(a) /\ Fits'
  \/ \E a \in Agents, t \in AgentTexts : SupportText(a, t, "none", TRUE) /\ Fits'
  \/ \E c \in ChatRefs, t \in AgentTexts :
       HttpSend(c, t, "d1", TRUE) /\ Fits'
  \/ \E c \in ChatRefs, g \in DashAgents : HttpTakeover(c, g[1], g[2]) /\ Fits'
  \/ \E c \in ChatRefs : HttpRelease(c) /\ Fits'
  \/ \E c \in ChatRefs, t \in AgentTexts :
       SocketSendMessage(c, t, "d1", TRUE) /\ Fits'
  \/ \E c \in ChatRefs, g \in DashAgents : SocketTakeover(c, g[1], g[2]) /\ Fits'
  \/ \E c \in ChatRefs : SocketRelease(c) /\ Fits'
  \/ \E c \in WebChatIds : ApiChatSession(c) /\ Fits'
  \/ \E c \in WebChatIds : SocketCreateNewChat(c) /\ Fits'
  \/ \E c \in WebChatIds : SocketUserInfo(c) /\ Fits'
  \/ \E c \in WebChatIds, e \in {"request_human", "request_human_support"} :
       SocketRequestHuman(e, c) /\ Serial' /\ Fits'

Spec == Init /\ [][Next]_vars

\* ------------------------------------------------------------------------
\* Vocabulary of the properties
\* ------------------------------------------------------------------------
\* the last step stored a user message (a handler suspended in notifyAgents
\* has not stored it yet)
UserMessageStored ==
  /\ ev.op \in {"webhook", "user_message"}
  /\ ev.stage \in {"arrive", "notified"}
  /\ ev.path # "notify"

\* mode of the session at the moment the last step began; a session the
\* step created began in bot mode
ModeBefore == IF ev.known THEN ev.prevMode ELSE "bot"

\* the messages the last step appended to the session it is about
Appended ==
  IF ev.chat \in DOMAIN activeChats
  THEN SubSeq(activeChats[ev.chat].messages, ev.prevLen + 1,
              Len(activeChats[ev.chat].messages))
  ELSE <<>>

\* the last step sent or emitted something with property P
Sends(P(_)) == \E i \in 1..Len(out) : P(out[i])

IsBotReply(o) ==
  \/ o.ch = "customerBot" /\ o.kind = "bot_reply"
  \/ o.ch = "io" /\ o.kind = "bot_message"
  \/ o.ch = "io" /\ o.kind = "message_from_bot" /\ o.text # UploadFailed

IsPrefix(s, t) == Len(s) <= Len(t) /\ SubSeq(t, 1, Len(s)) = s

TakeoverOps == {"/open", "callback", "http_takeover", "takeover"}
ReleaseOps == {"/release", "http_release", "release"}

\* ------------------------------------------------------------------------
\* C1: every session has agentId set if and only if its mode is 'human'
\* ------------------------------------------------------------------------
C1_AgentIffHuman ==
  \A c \in DOMAIN activeChats :
    (activeChats[c].agentId # Undefined) <=> (activeChats[c].mode = "human")

\* ------------------------------------------------------------------------
\* C2: a user message stored while the session is in human mode gets no
\* reply of the auto-responder: no message from 'bot' is appended and no bot
\* reply is sent to the user
\* ------------------------------------------------------------------------
C2_NoBotReplyInHumanMode ==
  (UserMessageStored /\ ModeBefore = "human") =>
    /\ \A i \in 1..Len(Appended) : Appended[i].from # "bot"
    /\ ~Sends(IsBotReply)

\* ------------------------------------------------------------------------
\* C3: handling a user message while the session is in bot mode, the first
\* message of a session included, sends the text of the message to no agent
\* through the support bot
\* ------------------------------------------------------------------------
QuotesUserText(o) ==
  o.ch = "supportBot" /\ o.kind \in {"new_chat", "forward", "upload_failed"}

C3_BotModeNothingToAgents ==
  (UserMessageStored /\ ModeBefore = "bot") => ~Sends(QuotesUserText)

\* C3 as amended: in bot mode a user message is never relayed to an agent,
\* and a message to a session that exists already reaches no agent; the
\* message that creates a session is quoted in the NEW CHAT notification
\* that every registered agent is sent
IsRelay(o) == o.ch = "supportBot" /\ o.kind \in {"forward", "upload_failed"}
IsNewChatNote(o) == o.ch = "supportBot" /\ o.kind = "new_chat"

C3_FirstMessageOnlyNotified ==
  (UserMessageStored /\ ModeBefore = "bot") =>
    /\ ~Sends(IsRelay)
    /\ ev.stage = "arrive" => ~Sends(IsNewChatNote)
    /\ ev.stage = "notified" =>
         \A a \in registeredAgents :
           \E i \in 1..Len(out) :
             /\ IsNewChatNote(out[i])
             /\ out[i].to = a
             /\ out[i].chat = ev.chat
             /\ out[i].text = IF ev.op = "webhook" /\ ev.text = <<>>
                              THEN <<"[Chat started]">>
                              ELSE ev.text

C3_Witness ==
  /\ UserMessageStored /\ ModeBefore = "bot"
  /\ ev.op = "webhook" /\ ev.stage = "notified"
  /\ Sends(IsNewChatNote)

\* ------------------------------------------------------------------------
\* C4: a takeover of a session in bot mode followed by a release, through
\* any entry points, leaves mode 'bot' and no agentId, and appends exactly
\* two SYSTEM messages: the join message at the takeover, the leave message
\* at the release
\* ------------------------------------------------------------------------
C4_TakeoverThenRelease ==
  /\ (ev.op \in TakeoverOps /\ ev.path \in {"open", "takeover"}
      /\ ev.known /\ ev.prevMode = "bot") =>
       /\ activeChats[ev.chat].mode = "human"
       /\ Len(Appended) = 1
       /\ Appended[1].from = "system"
       /\ Len(Appended[1].text) = 2 /\ Appended[1].text[2] = " connected"
  /\ (ev.op \in ReleaseOps /\ ev.path = "release"
      /\ ev.known /\ ev.prevMode = "human") =>
       /\ activeChats[ev.chat].mode = "bot"
       /\ activeChats[ev.chat].agentId = Undefined
       /\ Len(Appended) = 1
       /\ Appended[1].from = "system"
       /\ Len(Appended[1].text) = 2 /\ Appended[1].text[2] = " disconnected"

\* ------------------------------------------------------------------------
\* C5: a free-text message of a support agent is appended to a session and
\* delivered to its user if and only if the agent is the assigned agent
\* (agentId) of that session when the message is handled
\* ------------------------------------------------------------------------
C5_OnlyAssignedAgentReaches ==
  ev.op = "agent_text" =>
    \A c \in DOMAIN activeChats :
      (ev.path = "sent" /\ ev.chat = c)
        <=> (activeChats[c].mode = "human" /\ activeChats[c].agentId = ev.agent)

\* ------------------------------------------------------------------------
\* C6: an agent command that names a chat id absent from activeChats
\* changes none of activeChats, agentChatMap, userChatMap, registeredAgents
\* ------------------------------------------------------------------------
UnknownChatOps ==
  {"/open", "callback", "http_takeover", "http_send", "takeover",
   "send_message"}

C6_UnknownChatNoChange ==
  [][(ev'.op \in UnknownChatOps /\ ev'.chat # "" /\ ~ev'.known) =>
       UNCHANGED <<activeChats, agentChatMap, userChatMap,
                   registeredAgents>>]_vars

\* ------------------------------------------------------------------------
\* C7: an agent command that names a chat id absent from activeChats is
\* reported as not found: the support bot sends the not-found message for
\* /open and for a free-text reply; /takeover, /send, socket takeover and
\* send_message neither answer with success nor broadcast
\* chat_mode_changed or message_from_agent for that chat
\* ------------------------------------------------------------------------
IsNotFound(o) == o.ch = "supportBot" /\ o.kind = "not_found"
IsSuccess(o) ==
  \/ o.ch = "http" /\ o.kind = "ok"
  \/ o.ch = "io" /\ o.kind \in {"chat_mode_changed", "message_from_agent"}

C7_UnknownChatReported ==
  (ev.chat # "" /\ ~ev.known) =>
    /\ ev.op \in {"/open", "agent_text"} => Sends(IsNotFound)
    /\ ev.op \in {"http_takeover", "http_send", "takeover", "send_message"} =>
         ~Sends(IsSuccess)

\* ------------------------------------------------------------------------
\* C8: the message log of a session is append-only: after every event the
\* log of every session has the log before the event as a prefix
\* ------------------------------------------------------------------------
C8_LogAppendOnly ==
  [][\A c \in DOMAIN activeChats :
       /\ c \in DOMAIN activeChats'
       /\ IsPrefix(activeChats[c].messages, activeChats'[c].messages)]_vars

\* ------------------------------------------------------------------------
\* The auto-responder on many texts: the user-side handlers with texts
\* built from a start, a core and an end, in several letter cases
\* ------------------------------------------------------------------------
toUpperCase(text) == [i \in 1..Len(text) |-> toUpperCaseChar(text[i])]

\* every second letter in upper case
toMixedCase(text) ==
  [i \in 1..Len(text) |->
     IF i % 2 = 0 THEN toUpperCaseChar(text[i]) ELSE toLowerCaseChar(text[i])]

T_i_need == <<"i", " ", "n", "e", "e", "d", " ">>
T_now == <<" ", "n", "o", "w">>
T_an_agent == <<"a", "n", " ", "a", "g", "e", "n", "t">>
T_agents == <<"a", "g", "e", "n", "t", "s">>
T_hello == <<"h", "e", "l", "l", "o">>
T_price == <<"p", "r", "i", "c", "e">>
T_xyz == <<"x", "y", "z">>
T_human == <<"h", "u", "m", "a", "n">>
T_INeedHumanSupportNow == <<"I", " ", "n", "e", "e", "d", " ", "H", "U", "M", "A", "N", " ", "s", "u", "p", "p", "o", "r", "t", " ", "n", "o", "w">>
T_INeedAnAgent == <<"I", " ", "n", "e", "e", "d", " ", "a", "n", " ", "a", "g", "e", "n", "t">>

Starts == {<<>>, T_i_need}
Cores ==
  {W_talk_to_human, W_speak_to_human, W_human_support, W_agent, T_an_agent,
   T_agents, T_human, T_hello, T_price, T_xyz}
Ends == {<<>>, T_now}

ReplyTexts ==
  {T_INeedHumanSupportNow, T_INeedAnAgent}
    \cup {s \o c \o e : s \in Starts, c \in Cores, e \in Ends}
    \cup {toUpperCase(s \o c \o e) : s \in Starts, c \in Cores, e \in Ends}
    \cup {toMixedCase(s \o c \o e) : s \in Starts, c \in Cores, e \in Ends}

NextReply ==
  \/ HasRoom /\ \E u \in TgUsers, t \in ReplyTexts :
                 CustomerWebhook(u, t, "none", TRUE) /\ Serial' /\ Fits'
  \/ HasRoom /\ \E c \in WebChatIds, t \in ReplyTexts :
                 SocketUserMessage(c, t, "none", TRUE, TRUE) /\ Serial' /\ Fits'
  \/ \E i \in 1..MaxTasks : ResumeNotify(i, TRUE, TRUE)
  \/ \E i \in 1..MaxTasks : ResumeReply(i)
  \/ \E a \in Agents : SupportStart(a) /\ Fits'
  \/ \E a \in Agents, c \in ChatRefs : SupportOpen(a, c) /\ Fits'
  \/ \E a \in Agents : SupportRelease(a) /\ Fits'
  \/ \E c \in WebChatIds : ApiChatSession(c) /\ Fits'

SpecReply == Init /\ [][NextReply]_vars

\* the last step ran handleBotReply on a session in bot mode
BotReplied == UserMessageStored /\ ev.path = "reply"

HasPhrase(text) ==
  \/ includes(toLowerCase(text), W_talk_to_human)
  \/ includes(toLowerCase(text), W_speak_to_human)
  \/ includes(toLowerCase(text), W_human_support)

\* the reply the last step sent to the user is r
RepliedWith(r) ==
  \E i \in 1..Len(out) : IsBotReply(out[i]) /\ out[i].text = r

IsEscalationSignal(o) ==
  \/ o.ch = "io" /\ o.kind = "human_support_requested"
  \/ o.ch = "supportBot" /\ o.kind = "support_requested"

\* ------------------------------------------------------------------------
\* C9: a user text handled by handleBotReply on a session in bot mode whose
\* lower-cased form contains 'talk to human', 'speak to human' or
\* 'human support' anywhere, in any letter case, leaves requestingHuman
\* true and is answered with the escalation acknowledgment
\* ------------------------------------------------------------------------
C9_PhraseEscalates ==
  (BotReplied /\ HasPhrase(ev.text)) =>
    /\ activeChats[ev.chat].requestingHuman
    /\ RepliedWith(EscalationAck)
    /\ \A i \in 1..Len(out) : IsBotReply(out[i]) => out[i].text = EscalationAck

C9_Witness ==
  /\ BotReplied
  /\ ev.text = T_INeedHumanSupportNow
  /\ activeChats[ev.chat].requestingHuman
  /\ RepliedWith(EscalationAck)

T_HelloCanYouHelp == <<"h", "e", "l", "l", "o", ",", " ", "c", "a", "n", " ", "y", "o", "u", " ", "h", "e", "l", "p">>
T_sep == <<",", " ">>

\* every keyword of every rule
Keywords ==
  UNION {{autoReplies[r].keywords[k] : k \in 1..Len(autoReplies[r].keywords)} :
           r \in 1..Len(autoReplies)}

AutoWords == Keywords \cup {<<>>, T_xyz}

AutoTexts ==
  {T_HelloCanYouHelp}
    \cup {a \o T_sep \o b : a \in AutoWords, b \in AutoWords}
    \cup {toUpperCase(a) \o T_sep \o b : a \in AutoWords, b \in AutoWords}

\* a text arrives at getAutoReply
DrawText(t) ==
  /\ ev' = Event("getAutoReply", "call", "", Undefined, t, "none", "")
  /\ out' = <<>>
  /\ UNCHANGED <<activeChats, agentChatMap, userChatMap, registeredAgents,
                 tasks>>
  /\ UNCHANGED <<chat_sessions, blocked, supabase, chat_messages, appends, now,
                 topicChats, topics, handlers>>

\* getAutoReply returns
ApplyGetAutoReply ==
  /\ ev.op = "getAutoReply" /\ ev.stage = "call"
  /\ ev' = [ev EXCEPT !.stage = "return"]
  /\ out' = <<Sent("return", 0, "getAutoReply", "", getAutoReply(ev.text), "",
                   Undefined)>>
  /\ UNCHANGED <<activeChats, agentChatMap, userChatMap, registeredAgents,
                 tasks>>
  /\ UNCHANGED <<chat_sessions, blocked, supabase, chat_messages, appends, now,
                 topicChats, topics, handlers>>

NextAuto ==
  \/ \E t \in AutoTexts : DrawText(t)
  \/ ApplyGetAutoReply

SpecAuto == Init /\ [][NextAuto]_vars

\* rule r has a keyword that occurs in the lower-cased text
RuleMatches(r, text) ==
  \E k \in 1..Len(autoReplies[r].keywords) :
    includes(toLowerCase(text), autoReplies[r].keywords[k])

Returned == ev.op = "getAutoReply" /\ ev.stage = "return"

\* ------------------------------------------------------------------------
\* C11: getAutoReply returns the reply of the lowest-index rule that has a
\* keyword occurring in the lower-cased text, and null exactly when no rule
\* has one; replies of several matching rules are never merged
\* ------------------------------------------------------------------------
C11_FirstMatchWins ==
  Returned =>
    /\ Len(out) = 1
    /\ \A r \in 1..Len(autoReplies) :
         (RuleMatches(r, ev.text) /\ \A q \in 1..(r - 1) : ~RuleMatches(q, ev.text))
           => out[1].text = autoReplies[r].reply
    /\ (out[1].text = Null) <=>
         (\A r \in 1..Len(autoReplies) : ~RuleMatches(r, ev.text))
    /\ out[1].text \in {autoReplies[r].reply : r \in 1..Len(autoReplies)}
                         \cup {Null}
    /\ ev.text = T_HelloCanYouHelp => out[1].text = R_hello

C11_Witness ==
  /\ Returned
  /\ ev.text = T_HelloCanYouHelp
  /\ RuleMatches(1, ev.text) /\ RuleMatches(3, ev.text)
  /\ out[1].text = R_hello

\* ------------------------------------------------------------------------
\* The router with failing external calls: every handler that calls
\* Telegram runs with its calls succeeding and with them failing; user
\* messages come with and without a file
\* ------------------------------------------------------------------------
Files == {"none", "photo"}
WebFiles == {"none", "data"}

NextFail ==
  \/ \E u \in TgUsers, f \in Files, delivered \in BOOLEAN :
       CustomerWebhook(u, T_hi, f, delivered) /\ Serial' /\ FitsIn(MaxMsgsFail)'
  \/ \E c \in WebChatIds, f \in WebFiles, uploadOk \in BOOLEAN,
        delivered \in BOOLEAN :
       SocketUserMessage(c, T_hi, f, uploadOk, delivered) /\ Serial' /\ FitsIn(MaxMsgsFail)'
  \/ \E i \in 1..MaxTasks, uploadOk \in BOOLEAN, delivered \in BOOLEAN :
       ResumeNotify(i, uploadOk, delivered)
  \/ \E i \in 1..MaxTasks : ResumeReply(i)
  \/ \E a \in Agents, c \in ChatRefs, answered \in BOOLEAN :
       SupportCallback(a, c, answered) /\ FitsIn(MaxMsgsFail)'
  \/ \E a \in Agents : SupportStart(a) /\ FitsIn(MaxMsgsFail)'
  \/ \E a \in Agents, c \in ChatRefs : SupportOpen(a, c) /\ FitsIn(MaxMsgsFail)'
  \/ \E a \in Agents : SupportRelease(a) /\ FitsIn(MaxMsgsFail)'
  \/ \E a \in Agents, f \in Files, delivered \in BOOLEAN :
       SupportText(a, T_ok, f, delivered) /\ FitsIn(MaxMsgsFail)'
  \/ \E c \in ChatRefs, delivered \in BOOLEAN : HttpSend(c, T_ok, "d1", delivered) /\ FitsIn(MaxMsgsFail)'
  \/ \E c \in ChatRefs, delivered \in BOOLEAN :
       SocketSendMessage(c, T_ok, "d1", delivered) /\ FitsIn(MaxMsgsFail)'
  \/ \E c \in WebChatIds, e \in {"request_human", "request_human_support"} :
       SocketRequestHuman(e, c) /\ Serial' /\ FitsIn(MaxMsgsFail)'
  \/ \E c \in WebChatIds : ApiChatSession(c) /\ FitsIn(MaxMsgsFail)'

SpecFail == Init /\ [][NextFail]_vars

\* the last step made a call to Telegram that failed
SendFailed(bot) ==
  /\ ev.fault = "send"
  /\ \E i \in 1..Len(out) : out[i].ch = bot

\* ------------------------------------------------------------------------
\* C12: an operation that changes a session and calls an external channel
\* keeps the change when the call fails: a message of a user or an agent
\* stays in the log, and a takeover through the 'Open Chat' button whose
\* answerCallbackQuery fails still puts the session in human mode with the
\* agent assigned and the join message logged
\* ------------------------------------------------------------------------
C12_FailureKeepsChange ==
  /\ (UserMessageStored /\ SendFailed("supportBot")) =>
       /\ Len(Appended) >= 1
       /\ Appended[1].from = "user"
  /\ (ev.op \in {"agent_text", "http_send", "send_message"} /\ ev.known
      /\ SendFailed("customerBot")) =>
       /\ Len(Appended) = 1
       /\ Appended[1].from = "agent"
  /\ (ev.op = "callback" /\ ev.fault = "answer" /\ ev.known) =>
       /\ activeChats[ev.chat].mode = "human"
       /\ activeChats[ev.chat].agentId = ev.agent
       /\ Len(Appended) = 1
       /\ Appended[1].from = "system"

\* ========================================================================
\* src/src/server2.ts: the variant with one bot (node-telegram-bot-api) and
\* the dashboard.  A Telegram session is kept under String(msg.chat.id).
\* ========================================================================
Server2ChatId(u) == String(u)
Server2ChatRefs == {"1", "w1"}

\* the ChatState that /takeover and socket 'takeover' set for a chat id
\* that is not in activeChats
Server2TakenOverChat(agentId, agentName) ==
  [NewChat("web", 0) EXCEPT !.mode = "human", !.agentId = agentId,
                            !.agentName = agentName]

\* bot.on("message"): the session is created when missing, the message is
\* stored and broadcast, and in bot mode handleBotReply answers; the
\* handler is suspended in bot.sendMessage with the reply still to be stored
Server2BotMessage(u, text) ==
  /\ LET chatId == Server2ChatId(u)
         known == chatId \in DOMAIN activeChats
         c0 == IF known THEN activeChats
               ELSE Put(activeChats, chatId, NewChat("telegram", u))
         c1 == storeMessage(c0, chatId, Msg("user", text, Undefined, "none"))
         r == handleBotReply("message", c1, {}, chatId, text, "none",
                             c1[chatId].source)
     IN /\ Len(tasks) + Len(r.task) <= MaxHandlers
        /\ activeChats' = r.chats
        /\ tasks' = tasks \o r.task
        /\ out' = <<emitToDashboard("message_from_user", chatId, text, "",
                                    Undefined)>> \o r.out
        /\ ev' = Event("message", "arrive", chatId, Undefined, text, "none",
                       r.path)
  /\ UNCHANGED <<agentChatMap, userChatMap, registeredAgents>>
  /\ UNCHANGED <<chat_sessions, blocked, supabase, chat_messages, appends, now,
                 topicChats, topics, handlers>>

\* socket.on("user_message") of a client that sends no userId
Server2SocketUserMessage(chatId, text) ==
  /\ LET known == chatId \in DOMAIN activeChats
         c0 == IF known THEN activeChats
               ELSE Put(activeChats, chatId, NewChat("web", 0))
         c1 == storeMessage(c0, chatId, Msg("user", text, Undefined, "none"))
         r == handleBotReply("user_message", c1, {}, chatId, text, "none",
                             c1[chatId].source)
     IN /\ Len(tasks) + Len(r.task) <= MaxHandlers
        /\ activeChats' = r.chats
        /\ tasks' = tasks \o r.task
        /\ out' = <<emitToDashboard("message_from_user", chatId, text, "",
                                    Undefined)>> \o r.out
        /\ ev' = Event("user_message", "arrive", chatId, Undefined, text,
                       "none", r.path)
  /\ UNCHANGED <<agentChatMap, userChatMap, registeredAgents>>
  /\ UNCHANGED <<chat_sessions, blocked, supabase, chat_messages, appends, now,
                 topicChats, topics, handlers>>

\* the try block shared by app.post("/send") and socket.on("send_message"):
\* bot.sendMessage is awaited first, and storing and broadcasting the agent
\* message come after it, so a rejected sendMessage skips them
Server2SendAgentMessage(chats, chatId, message, agentId, delivered) ==
  LET viaTelegram == /\ chatId \in DOMAIN chats
                     /\ chats[chatId].source = "telegram"
      attempt == IF viaTelegram
                 THEN <<tgSend("customerBot", chats[chatId].telegramUserId,
                               "agent_msg", chatId, message)>>
                 ELSE <<>>
      threw == viaTelegram /\ ~delivered
  IN [chats |-> IF threw THEN chats
                ELSE storeMessage(chats, chatId,
                                  Msg("agent", message, agentId, "none")),
      out |-> attempt
              \o (IF threw THEN <<>>
                  ELSE <<emitToDashboard("message_from_agent", chatId,
                                         message, "", agentId)>>),
      threw |-> threw]

\* app.post("/send"); a request without chatId or message is answered 400
Server2HttpSend(chatId, message, agentId, delivered) ==
  /\ LET r == Server2SendAgentMessage(activeChats, chatId, message, agentId,
                                      delivered)
     IN /\ activeChats' = r.chats
        /\ out' = r.out \o <<respond(IF r.threw THEN "500" ELSE "ok")>>
        /\ ev' = Faulted(Event("http_send", "arrive", chatId, agentId,
                               message, "none",
                               IF r.threw THEN "threw" ELSE "sent"),
                         ~r.threw, IF r.threw THEN "caught" ELSE "done")
  /\ UNCHANGED <<agentChatMap, userChatMap, registeredAgents, tasks>>
  /\ UNCHANGED <<chat_sessions, blocked, supabase, chat_messages, appends, now,
                 topicChats, topics, handlers>>

\* socket.on("send_message")
Server2SocketSendMessage(chatId, message, agentId, delivered) ==
  /\ LET r == Server2SendAgentMessage(activeChats, chatId, message, agentId,
                                      delivered)
     IN /\ activeChats' = r.chats
        /\ out' = r.out \o (IF r.threw THEN <<socketError>> ELSE <<>>)
        /\ ev' = Faulted(Event("send_message", "arrive", chatId, agentId,
                               message, "none",
                               IF r.threw THEN "threw" ELSE "sent"),
                         ~r.threw, IF r.threw THEN "caught" ELSE "done")
  /\ UNCHANGED <<agentChatMap, userChatMap, registeredAgents, tasks>>
  /\ UNCHANGED <<chat_sessions, blocked, supabase, chat_messages, appends, now,
                 topicChats, topics, handlers>>

\* the body shared by app.post("/takeover") and socket.on("takeover")
Server2Takeover(chats, chatId, agentId, agentName) ==
  IF chatId \in DOMAIN chats
  THEN takeover(chats, chatId, agentId, agentName)
  ELSE Put(chats, chatId, Server2TakenOverChat(agentId, agentName))

\* app.post("/takeover")
Server2HttpTakeover(chatId, agentId, agentName) ==
  /\ IF ~Truthy(agentId)
     THEN /\ out' = <<respond("400")>>
          /\ ev' = Event("http_takeover", "arrive", chatId, agentId, <<>>,
                         "none", "400")
          /\ UNCHANGED activeChats
     ELSE /\ activeChats' = Server2Takeover(activeChats, chatId, agentId,
                                            agentName)
          /\ out' = <<emitToDashboard("chat_mode_changed", chatId, <<>>,
                                      "human", agentId),
                      respond("ok")>>
          /\ ev' = Event("http_takeover", "arrive", chatId, agentId, <<>>,
                         "none", "takeover")
  /\ UNCHANGED <<agentChatMap, userChatMap, registeredAgents, tasks>>
  /\ UNCHANGED <<chat_sessions, blocked, supabase, chat_messages, appends, now,
                 topicChats, topics, handlers>>

\* socket.on("takeover")
Server2SocketTakeover(chatId, agentId, agentName) ==
  /\ activeChats' = Server2Takeover(activeChats, chatId, agentId, agentName)
  /\ out' = <<emitToDashboard("chat_mode_changed", chatId, <<>>, "human",
                              agentId)>>
  /\ ev' = Event("takeover", "arrive", chatId, agentId, <<>>, "none",
                 "takeover")
  /\ UNCHANGED <<agentChatMap, userChatMap, registeredAgents, tasks>>
  /\ UNCHANGED <<chat_sessions, blocked, supabase, chat_messages, appends, now,
                 topicChats, topics, handlers>>

NextServer2 ==
  \/ \E u \in TgUsers : Server2BotMessage(u, T_hi) /\ Serial' /\ FitsIn(MaxMsgsFail)'
  \/ \E c \in Server2ChatRefs :
       Server2SocketUserMessage(c, T_hi) /\ Serial' /\ FitsIn(MaxMsgsFail)'
  \/ \E i \in 1..MaxTasks : ResumeReply(i)
  \/ \E c \in Server2ChatRefs, delivered \in BOOLEAN :
       Server2HttpSend(c, T_ok, "d1", delivered) /\ FitsIn(MaxMsgsFail)'
  \/ \E c \in Server2ChatRefs, delivered \in BOOLEAN :
       Server2SocketSendMessage(c, T_ok, "d1", delivered)
       /\ FitsIn(MaxMsgsFail)'
  \/ \E c \in Server2ChatRefs, g \in DashAgents :
       Server2HttpTakeover(c, g[1], g[2]) /\ FitsIn(MaxMsgsFail)'
  \/ \E c \in Server2ChatRefs, g \in DashAgents :
       Server2SocketTakeover(c, g[1], g[2]) /\ FitsIn(MaxMsgsFail)'
  \/ \E c \in Server2ChatRefs : HttpRelease(c)

SpecServer2 == Init /\ [][NextServer2]_vars

\* the last step was an agent's send to a session whose delivery to the
\* customer's Telegram failed
AgentSendFailed ==
  /\ ev.op \in {"http_send", "send_message"}
  /\ ev.known
  /\ SendFailed("customerBot")

\* ------------------------------------------------------------------------
\* C13: a failed delivery to the customer's Telegram is neither surfaced nor
\* retried: /send answers {ok: true}, send_message emits no 'error', the
\* agent message is appended all the same, and exactly one delivery was
\* attempted
\* ------------------------------------------------------------------------
C13_FailedDeliverySilent ==
  AgentSendFailed =>
    /\ Len(Appended) = 1
    /\ Appended[1].from = "agent"
    /\ ~Sends(LAMBDA o : o.ch = "socket" /\ o.kind = "error")
    /\ ev.op = "http_send" =>
         Sends(LAMBDA o : o.ch = "http" /\ o.kind = "ok")
    /\ Cardinality({i \in 1..Len(out) : out[i].ch = "customerBot"}) = 1

\* ========================================================================
\* src/unnamed/part_002: user events that lack a field.  An update of the
\* customer bot may lack its message or the message its sender; a message
\* may have neither text nor caption nor file; a 'user_message' of a web
\* client may lack chatId (the key is then undefined) or its text.
\* ========================================================================
\* app.post('/webhook') for an update without message (answered 200 at
\* once) or whose message has no from (message.from.id throws, and the
\* catch of the route answers 200)
CustomerWebhookDiscarded(lacking) ==
  /\ out' = <<respond("200")>>
  /\ ev' = [Event("webhook", "arrive", "", Undefined, <<>>, "none",
                  IF lacking = "message" THEN "no_message" ELSE "threw")
              EXCEPT !.outcome = IF lacking = "message" THEN "done"
                                 ELSE "caught"]
  /\ UNCHANGED <<activeChats, agentChatMap, userChatMap, registeredAgents,
                 tasks>>
  /\ UNCHANGED <<chat_sessions, blocked, supabase, chat_messages, appends, now,
                 topicChats, topics, handlers>>

Texts == {T_hi, <<>>}
SocketChatIds == WebChatIds \cup {Undefined}

NextLacking ==
  \/ \E lacking \in {"message", "from"} : CustomerWebhookDiscarded(lacking)
  \/ \E u \in TgUsers, t \in Texts :
       CustomerWebhook(u, t, "none", TRUE) /\ Serial' /\ FitsIn(MaxMsgsFail)'
  \/ \E c \in SocketChatIds, t \in Texts :
       SocketUserMessage(c, t, "none", TRUE, TRUE) /\ Serial' /\ FitsIn(MaxMsgsFail)'
  \/ \E i \in 1..MaxTasks : ResumeNotify(i, TRUE, TRUE)
  \/ \E i \in 1..MaxTasks : ResumeReply(i)
  \/ \E a \in Agents : SupportStart(a) /\ FitsIn(MaxMsgsFail)'
  \/ \E a \in Agents, c \in ChatRefs :
       SupportOpen(a, c) /\ FitsIn(MaxMsgsFail)'

SpecLacking == Init /\ [][NextLacking]_vars

\* the event that arrived lacks a field: the update its message or its
\* sender, the message its text (and it has no file), the socket event its
\* chat id
LacksField(e) ==
  /\ e.op \in {"webhook", "user_message"}
  /\ e.stage = "arrive"
  /\ \/ e.path \in {"no_message", "threw"}
     \/ e.text = <<>> /\ e.file = "none"
     \/ e.chat = Undefined

\* ------------------------------------------------------------------------
\* C14: a user event that lacks a required field (chat id, text, sender
\* identity) is discarded: the step that receives it creates no session,
\* appends no message, changes no map, suspends no handler and sends no
\* bot reply
\* ------------------------------------------------------------------------
C14_LackingFieldDiscarded ==
  [][LacksField(ev') =>
       /\ UNCHANGED <<activeChats, agentChatMap, userChatMap, tasks>>
       /\ \A i \in 1..Len(out') : ~IsBotReply(out'[i])]_vars

\* ------------------------------------------------------------------------
\* C15: no failure of an external call is fatal: every handler catches the
\* failing send, upload or lookup, so no handler ends with an uncaught
\* exception or an unhandled promise rejection
\* ------------------------------------------------------------------------
C15_NoFailureFatal == ev.outcome # "unhandled"

\* events that come from the user's side: a message to the bot, the socket
\* events of the web client and its session endpoint
UserSideOps ==
  {"webhook", "message", "user_message", "user_info", "create_new_chat",
   "api_session"}

\* ------------------------------------------------------------------------
\* C16: a session enters activeChats only by a user-side event for a chat
\* id not seen before, and it enters in mode 'bot' with no agent assigned;
\* no command of an agent (takeover, /open, send) creates one
\* ------------------------------------------------------------------------
C16_OnlyUserEventsCreate ==
  [][\A c \in (DOMAIN activeChats') \ (DOMAIN activeChats) :
       /\ ev'.op \in UserSideOps
       /\ ev'.chat = c
       /\ activeChats'[c].mode = "bot"
       /\ activeChats'[c].agentId = Undefined]_vars

\* ========================================================================
\* src/src/server.ts: the two-bot variant that keeps its sessions in the
\* table chat_sessions.  The id of a row is a uuid the database draws;
\* user_id has no unique constraint.
\* ========================================================================
\* messages in the logs when handlers overlap
MaxMsgsRace == 4

\* the uuid of the n-th row inserted
SessionId(n) == CASE n = 1 -> "s1" [] n = 2 -> "s2" [] OTHER -> "s3"

\* .select("*").eq("user_id", userId).order("created_at", {ascending:
\* false}).limit(1).maybeSingle(): the id of the newest row of the user,
\* "" when there is none
RECURSIVE newestSession(_, _)
newestSession(rows, userId) ==
  IF rows = <<>> THEN ""
  ELSE IF rows[Len(rows)].user_id = userId THEN rows[Len(rows)].id
  ELSE newestSession(SubSeq(rows, 1, Len(rows) - 1), userId)

\* a handler of the customer webhook suspended between the answer of the
\* lookup (chat: the id found, "" when none) and what follows
ServerTask(u, text, found) ==
  [op |-> "webhook", pc |-> "lookup", chat |-> found, text |-> text,
   file |-> "none", reply |-> <<>>, esc |-> FALSE, user |-> u]

\* app.post("/webhook") up to the answer of "1. Find or create chat
\* session": the select is run on the table as it is now.  Without a
\* database client the handler answers 200 before it looks for a session
ServerWebhook(u, text) ==
  /\ IF ~supabase
     THEN /\ tasks' = tasks
          /\ ev' = Event("webhook", "arrive", "", Undefined, text, "none",
                         "no_store")
          /\ out' = <<respond("200")>>
     ELSE /\ Len(tasks) < MaxHandlers
          /\ LET found == newestSession(chat_sessions, String(u))
             IN /\ tasks' = Append(tasks, ServerTask(u, text, found))
                /\ ev' = Event("webhook", "arrive", found, Undefined, text,
                               "none", "lookup")
          /\ out' = <<>>
  /\ UNCHANGED <<activeChats, agentChatMap, userChatMap, registeredAgents,
                 chat_sessions, blocked, supabase, chat_messages, appends, now,
                 topicChats, topics, handlers>>

\* app.post("/webhook") from the answer of the lookup on: a row is inserted
\* when none was found, the session is put in activeChats when missing, the
\* message is stored and broadcast, and it is forwarded to the agent (human
\* mode) or answered by handleBotReply, which is suspended in tgSend
ServerFindOrCreate(i) ==
  /\ i \in 1..Len(tasks)
  /\ tasks[i].pc = "lookup"
  /\ LET t == tasks[i]
         create == t.chat = ""
         chatId == IF create THEN SessionId(Len(chat_sessions) + 1)
                   ELSE t.chat
         c0 == IF chatId \in DOMAIN activeChats
               THEN [activeChats EXCEPT ![chatId].telegramUserId = t.user]
               ELSE Put(activeChats, chatId, NewChat("telegram", t.user))
         c1 == storeMessage(c0, chatId,
                            Msg("user", t.text, Undefined, "none"))
         o1 == <<emitToDashboard("message_from_user", chatId, t.text, "",
                                 Undefined)>>
         agentTelegramId == parseInt(c1[chatId].agentId)
         r == handleBotReply("webhook", c1, {}, chatId, t.text, "none",
                             "telegram")
     IN /\ chat_sessions' =
             IF create
             THEN Append(chat_sessions,
                         [id |-> chatId, user_id |-> String(t.user)])
             ELSE chat_sessions
        /\ IF c1[chatId].mode = "human" /\ Truthy(c1[chatId].agentId)
           THEN /\ activeChats' = c1
                /\ tasks' = Without(tasks, i)
                /\ out' = o1
                          \o (IF agentTelegramId # NaN
                              THEN <<tgSend("supportBot", agentTelegramId,
                                            "forward", chatId, t.text)>>
                              ELSE <<>>)
                          \o <<respond("200")>>
                /\ ev' = [Event("webhook", "found", chatId, Undefined,
                                t.text, "none", "forward")
                            EXCEPT !.known = ~create]
           ELSE /\ activeChats' = r.chats
                /\ tasks' = Without(tasks, i) \o r.task
                /\ out' = o1 \o r.out
                          \o (IF r.task = <<>> THEN <<respond("200")>>
                              ELSE <<>>)
                /\ ev' = [Event("webhook", "found", chatId, Undefined,
                                t.text, "none", r.path)
                            EXCEPT !.known = ~create]
  /\ UNCHANGED <<agentChatMap, userChatMap, registeredAgents, blocked,
                 supabase, chat_messages, appends, now,
                 topicChats, topics, handlers>>

NextServer ==
  \/ \E u \in TgUsers, t \in {T_hi, W_agent} :
       ServerWebhook(u, t) /\ FitsIn(MaxMsgsRace)'
  \/ \E i \in 1..MaxHandlers : ServerFindOrCreate(i)
  \/ \E i \in 1..MaxHandlers : ResumeReply(i)
  \/ \E c \in {SessionId(1), SessionId(2)}, g \in DashAgents :
       HttpTakeover(c, g[1], g[2]) /\ FitsIn(MaxMsgsRace)'
  \/ \E c \in {SessionId(1), SessionId(2)} : HttpRelease(c)

SpecServer == Init /\ [][NextServer]_vars

\* ------------------------------------------------------------------------
\* C17: at most one chat session exists for a Telegram customer, whatever
\* the interleaving of the customer's messages: one row of chat_sessions
\* and one entry of activeChats
\* ------------------------------------------------------------------------
C17_OneSessionPerCustomer ==
  \A u \in TgUsers :
    /\ Cardinality({n \in 1..Len(chat_sessions) :
                      chat_sessions[n].user_id = String(u)}) <= 1
    /\ Cardinality({c \in DOMAIN activeChats :
                      activeChats[c].telegramUserId = u}) <= 1

\* ========================================================================
\* src/unnamed/part_002: a web client that supplies the chat id of a
\* Telegram session.  The handlers take chatId from the payload as it is.
\* ========================================================================
NextCollide ==
  \/ \E u \in TgUsers : CustomerWebhook(u, T_hi, "none", TRUE) /\ Serial' /\ FitsIn(MaxMsgsFail)'
  \/ \E c \in ChatRefs :
       SocketUserMessage(c, T_hi, "none", TRUE, TRUE) /\ Serial' /\ FitsIn(MaxMsgsFail)'
  \/ \E i \in 1..MaxTasks : ResumeNotify(i, TRUE, TRUE)
  \/ \E i \in 1..MaxTasks : ResumeReply(i)
  \/ \E a \in Agents : SupportStart(a) /\ FitsIn(MaxMsgsFail)'
  \/ \E c \in ChatRefs : ApiChatSession(c) /\ FitsIn(MaxMsgsFail)'
  \/ \E c \in ChatRefs : SocketCreateNewChat(c) /\ FitsIn(MaxMsgsFail)'
  \/ \E c \in ChatRefs : SocketUserInfo(c) /\ FitsIn(MaxMsgsFail)'
  \/ \E c \in ChatRefs, e \in {"request_human", "request_human_support"} :
       SocketRequestHuman(e, c) /\ Serial' /\ FitsIn(MaxMsgsFail)'

SpecCollide == Init /\ [][NextCollide]_vars

\* events of a web user: the socket events of the client and its session
\* endpoint
WebUserOps ==
  {"user_message", "user_info", "create_new_chat", "request_human",
   "request_human_support", "api_session"}

\* ------------------------------------------------------------------------
\* C18: session ids do not collide across channels: whatever chat id the
\* web client supplies, a step that handles an event of a web user leaves
\* every session whose source is 'telegram' in activeChats as it was
\* (nothing appended, nothing overwritten)
\* ------------------------------------------------------------------------
C18_WebLeavesTelegramSessions ==
  [][ev'.op \in WebUserOps =>
       \A c \in DOMAIN activeChats :
         activeChats[c].source = "telegram" =>
           /\ c \in DOMAIN activeChats'
           /\ activeChats'[c] = activeChats[c]]_vars

\* what the last step sent or emitted with property P
Those(P(_)) == {i \in 1..Len(out) : P(out[i])}

\* ------------------------------------------------------------------------
\* C19: a user message appended while its session is in bot mode gets
\* exactly one reply: for a Telegram session one message is sent through
\* the customer bot and stays to be stored (the handler is suspended in
\* tgSend), and the step that resumes it appends exactly that one message
\* with from = 'bot'; for a web session one message with from = 'bot' is
\* appended after the user's and emitted as one 'bot_message' event
\* ------------------------------------------------------------------------
C19_OneBotReplyDelivered ==
  /\ (UserMessageStored /\ ModeBefore = "bot") =>
       IF activeChats[ev.chat].source = "telegram"
       THEN /\ Len(Appended) = 1
            /\ Cardinality(Those(LAMBDA o : o.ch = "customerBot"
                                              /\ o.kind = "bot_reply"
                                              /\ o.chat = ev.chat)) = 1
            /\ \E i \in 1..Len(tasks) :
                 tasks[i].pc = "reply" /\ tasks[i].chat = ev.chat
       ELSE /\ Len(Appended) = 2
            /\ Appended[2].from = "bot"
            /\ Those(LAMBDA o : o.ch = "customerBot") = {}
            /\ Cardinality(Those(LAMBDA o : o.ch = "io"
                                              /\ o.kind = "bot_message"
                                              /\ o.chat = ev.chat
                                              /\ o.text = Appended[2].text))
                 = 1
  /\ ev.stage = "replied" =>
       /\ Len(Appended) = 1
       /\ Appended[1].from = "bot"

\* ========================================================================
\* src/unnamed/part_002: sessions in human mode, taken over by an agent of
\* the support bot (/open) or by an agent of the dashboard (/takeover),
\* with two agents registered at the support bot
\* ========================================================================
SupportAgents == {7, 8}

NextHuman ==
  \/ \E u \in TgUsers, f \in Files :
       CustomerWebhook(u, T_hi, f, TRUE) /\ Serial' /\ FitsIn(MaxMsgsFail)'
  \/ \E c \in WebChatIds, f \in WebFiles, uploadOk \in BOOLEAN :
       SocketUserMessage(c, T_hi, f, uploadOk, TRUE) /\ Serial'
       /\ FitsIn(MaxMsgsFail)'
  \/ \E i \in 1..MaxTasks, uploadOk \in BOOLEAN :
       ResumeNotify(i, uploadOk, TRUE)
  \/ \E i \in 1..MaxTasks : ResumeReply(i)
  \/ \E a \in SupportAgents : SupportStart(a) /\ FitsIn(MaxMsgsFail)'
  \/ \E a \in SupportAgents, c \in ChatRefs :
       SupportOpen(a, c) /\ FitsIn(MaxMsgsFail)'
  \/ \E c \in ChatRefs, g \in DashAgents :
       HttpTakeover(c, g[1], g[2]) /\ FitsIn(MaxMsgsFail)'
  \/ \E c \in WebChatIds : ApiChatSession(c) /\ FitsIn(MaxMsgsFail)'

SpecHuman == Init /\ [][NextHuman]_vars

\* the last step appended a user message to a session that was in human
\* mode when the step began
HumanModeMessage ==
  /\ UserMessageStored
  /\ ev.known
  /\ ev.prevMode = "human"

\* agent ids that are Telegram ids of agents of the support bot
TelegramAgentIds == {String(a) : a \in SupportAgents}

IsTrigger(text) == toLowerCase(text) = W_agent \/ HasPhrase(text)

\* the step raises requestingHuman of session c
RaisesRequest(c) ==
  /\ c \in DOMAIN activeChats'
  /\ activeChats'[c].requestingHuman
  /\ ~(c \in DOMAIN activeChats /\ activeChats[c].requestingHuman)

\* the step is a takeover or a release of an existing session that was
\* carried out (not answered 400, not cut short by an exception)
TakesOverOrReleases ==
  /\ ev'.op \in TakeoverOps \cup ReleaseOps
  /\ ev'.known
  /\ ev'.path \notin {"400", "threw", "no_chat"}

\* ------------------------------------------------------------------------
\* C21: requestingHuman becomes true only by an escalation (a trigger text
\* handled in bot mode, or a request_human / request_human_support event),
\* and it is false right after every takeover and every release of an
\* existing session, through whichever entry point
\* ------------------------------------------------------------------------
C21_RequestFlag ==
  [][/\ \A c \in ChatRefs :
          RaisesRequest(c) =>
            /\ ev'.chat = c
            /\ \/ /\ ev'.op \in {"webhook", "user_message"}
                  /\ IsTrigger(ev'.text)
                  /\ c \in DOMAIN activeChats => activeChats[c].mode = "bot"
               \/ ev'.op \in {"request_human", "request_human_support"}
     /\ TakesOverOrReleases =>
          ~activeChats'[ev'.chat].requestingHuman]_vars

\* a session whose user asked for a human is taken over from the
\* dashboard: the acknowledgement and the join message are its log, and
\* the request is cleared
C21_Witness ==
  /\ ev.op = "http_takeover"
  /\ ev.known
  /\ ev.path = "takeover"
  /\ Len(activeChats[ev.chat].messages) = 2
  /\ activeChats[ev.chat].messages[1].text = EscalationAck
  /\ activeChats[ev.chat].messages[2].from = "system"
  /\ ~activeChats[ev.chat].requestingHuman

\* ========================================================================
\* src/unnamed/part_002: escalations with two agents at the support bot,
\* either of whom may have blocked the bot, so that a sendMessage to that
\* agent fails
\* ========================================================================
\* an agent blocks the support bot: from now on axios.post(sendMessage) to
\* this agent rejects
AgentBlocksBot(a) ==
  /\ a \notin blocked
  /\ blocked' = blocked \cup {a}
  /\ out' = <<>>
  /\ ev' = Event("block", "arrive", "", String(a), <<>>, "none", "")
  /\ UNCHANGED <<activeChats, agentChatMap, userChatMap, registeredAgents,
                 tasks, chat_sessions, supabase, chat_messages, appends, now,
                 topicChats, topics, handlers>>

NextEscalate ==
  \/ \E u \in TgUsers, t \in {T_hi, W_agent} :
       CustomerWebhook(u, t, "none", TRUE) /\ Serial' /\ FitsIn(MaxMsgsRace)'
  \/ \E c \in WebChatIds, t \in {T_hi, W_agent} :
       SocketUserMessage(c, t, "none", TRUE, TRUE) /\ Serial' /\ FitsIn(MaxMsgsRace)'
  \/ \E i \in 1..MaxTasks : ResumeNotify(i, TRUE, TRUE)
  \/ \E i \in 1..MaxTasks : ResumeReply(i)
  \/ \E a \in SupportAgents : SupportStart(a)
  \/ \E a \in SupportAgents : AgentBlocksBot(a)
  \/ \E a \in SupportAgents, c \in ChatRefs :
       SupportOpen(a, c) /\ FitsIn(MaxMsgsRace)'

SpecEscalate == Init /\ [][NextEscalate]_vars

\* the last step ran the escalation loop of handleBotReply for a trigger
\* text: at once for a web session, after tgSend for a Telegram session
EscalationHandled ==
  /\ ev.op \in {"webhook", "user_message"}
  /\ IsTrigger(ev.text)
  /\ \/ /\ ev.stage = "replied"
        /\ activeChats[ev.chat].messages
             [Len(activeChats[ev.chat].messages)].text = EscalationAck
     \/ /\ ev.stage \in {"arrive", "notified"}
        /\ ev.path = "reply"
        /\ activeChats[ev.chat].source = "web"

\* ------------------------------------------------------------------------
\* C22: when a trigger text is handled in bot mode, the SUPPORT REQUESTED
\* notification is sent exactly once to every agent registered by then
\* (no agent is ever unregistered, so these include every agent that sent
\* /start before the text was handled), whether or not the send to
\* another agent fails
\* ------------------------------------------------------------------------
C22_EveryAgentNotifiedOnce ==
  [][/\ registeredAgents \subseteq registeredAgents'
     /\ EscalationHandled' =>
          \A a \in registeredAgents' :
            Cardinality({i \in 1..Len(out') :
                           /\ out'[i].ch = "supportBot"
                           /\ out'[i].kind = "support_requested"
                           /\ out'[i].to = a
                           /\ out'[i].chat = ev'.chat}) = 1]_vars

\* an escalation is handled while agent 7, the first of the loop, has
\* blocked the bot, and agent 8 is notified all the same
C22_Witness ==
  /\ EscalationHandled
  /\ registeredAgents = SupportAgents
  /\ 7 \in blocked
  /\ Sends(LAMBDA o : o.kind = "support_requested" /\ o.to = 8)


\* ------------------------------------------------------------------------
\* src/src/server.ts: the routes of the application, the events of the web
\* widget and the dashboard, and the copy of the logs in chat_messages
\* ------------------------------------------------------------------------
\* messages of all logs together in the specifications of this section
MaxMsgsStore == 3

\* the commands of the support bot, as the agent types them
CmdOpen == <<"/", "o", "p", "e", "n">>
CmdRelease == <<"/", "r", "e", "l", "e", "a", "s", "e">>
CmdStart == <<"/", "s", "t", "a", "r", "t">>
CmdList == <<"/", "l", "i", "s", "t">>

\* the characters of a chat id, and the chat id some characters spell
idChars(chatId) ==
  CASE chatId = "s1" -> <<"s", "1">> [] chatId = "s2" -> <<"s", "2">>
    [] chatId = "s3" -> <<"s", "3">> [] chatId = "w1" -> <<"w", "1">>
    [] OTHER -> <<"?">>
join(chars) ==
  CASE chars = <<"s", "1">> -> "s1" [] chars = <<"s", "2">> -> "s2"
    [] chars = <<"s", "3">> -> "s3" [] chars = <<"w", "1">> -> "w1"
    [] chars = <<>> -> "" [] OTHER -> "?"

\* '/open <chat_id>' as an agent types it
OpenCommand(chatId) == CmdOpen \o <<" ">> \o idChars(chatId)

\* String.prototype.startsWith
startsWith(text, prefix) ==
  Len(text) >= Len(prefix) /\ SubSeq(text, 1, Len(prefix)) = prefix

\* text.split(" ")[1]: what stands between the first blank and the next
\* ("" when there is no blank)
splitSecond(text) ==
  LET blanks == {i \in 1..Len(text) : text[i] = " "}
  IN IF blanks = {} THEN ""
     ELSE LET b == CHOOSE i \in blanks : \A j \in blanks : i <= j
              later == {j \in blanks : j > b}
              e == IF later = {} THEN Len(text) + 1
                   ELSE CHOOSE i \in later : \A j \in later : i <= j
          IN join(SubSeq(text, b + 1, e - 1))

\* the routes in the order of their registration
ServerRoutes ==
  << [method |-> "POST", path |-> "/webhook", handler |-> "customer"],
     [method |-> "POST", path |-> "/webhook", handler |-> "support"],
     [method |-> "GET", path |-> "/health", handler |-> "health"],
     [method |-> "POST", path |-> "/send", handler |-> "send"],
     [method |-> "POST", path |-> "/takeover", handler |-> "takeover"],
     [method |-> "POST", path |-> "/release", handler |-> "release"],
     [method |-> "POST", path |-> "/api/chat/session", handler |-> "session"] >>

\* the handler Express runs for a request: the first registered for the
\* method and the path (no handler of server.ts calls next()), "404" when
\* none is registered
Dispatch(method, path) ==
  LET matching == {i \in 1..Len(ServerRoutes) :
                     /\ ServerRoutes[i].method = method
                     /\ ServerRoutes[i].path = path}
  IN IF matching = {} THEN "404"
     ELSE ServerRoutes[CHOOSE i \in matching :
                         \A j \in matching : i <= j].handler

\* the paths a Telegram webhook is posted to: the one both handlers are
\* registered on, and the one the startup log gives for the support bot
ServerPaths == {"/webhook", "/telegram/support/webhook"}

\* the messages a step has stored in the log of chatId
storedBy(chats0, chats1, chatId) ==
  IF chatId \notin DOMAIN chats1 THEN <<>>
  ELSE SubSeq(chats1[chatId].messages,
              (IF chatId \in DOMAIN chats0
               THEN Len(chats0[chatId].messages) ELSE 0) + 1,
              Len(chats1[chatId].messages))

\* storeMessage, its second half: one call of appendMessage for every
\* message stored, in flight up to its select; appendMessage returns at
\* once when there is no database client
appendCalls(chats0, chats1, chatId) ==
  IF ~supabase THEN <<>>
  ELSE LET stored == storedBy(chats0, chats1, chatId)
       IN [k \in 1..Len(stored) |->
             [chat |-> chatId, msg |-> stored[k], pc |-> "select",
              row |-> 0, history |-> <<>>]]

\* appendMessage, the answer of its select: .eq("chat_id", chatId)
\* .eq("archived", false).maybeSingle() gives no data for no row, the row
\* for one row, and an error for several rows, which is thrown, caught and
\* logged: the message is then not written
AppendSelect(i) ==
  /\ i \in 1..Len(appends)
  /\ appends[i].pc = "select"
  /\ LET call == appends[i]
         rows == {r \in 1..Len(chat_messages) :
                    chat_messages[r].chat_id = call.chat}
     IN /\ appends' =
             IF Cardinality(rows) > 1 THEN Without(appends, i)
             ELSE IF rows = {}
             THEN [appends EXCEPT ![i].pc = "write"]
             ELSE LET r == CHOOSE x \in rows : TRUE
                  IN [appends EXCEPT
                        ![i].pc = "write", ![i].row = r,
                        ![i].history = chat_messages[r].chat_history]
        /\ ev' = Event("appendMessage", "select", call.chat, Undefined,
                       call.msg.text, "none",
                       IF Cardinality(rows) > 1 THEN "error" ELSE "read")
  /\ out' = <<>>
  /\ UNCHANGED <<activeChats, agentChatMap, userChatMap, registeredAgents,
                 tasks, chat_sessions, blocked, supabase, chat_messages, now,
                 topicChats, topics, handlers>>

\* appendMessage, its write: insert of a row with [msg] when the select
\* gave no data, else update of the row read to [...data.chat_history, msg]
AppendWrite(i) ==
  /\ i \in 1..Len(appends)
  /\ appends[i].pc = "write"
  /\ LET call == appends[i]
     IN /\ chat_messages' =
             IF call.row = 0
             THEN Append(chat_messages,
                         [chat_id |-> call.chat, chat_history |-> <<call.msg>>])
             ELSE [chat_messages EXCEPT
                     ![call.row].chat_history = Append(call.history, call.msg)]
        /\ ev' = Event("appendMessage", "write", call.chat, Undefined,
                       call.msg.text, "none",
                       IF call.row = 0 THEN "insert" ELSE "update")
  /\ appends' = Without(appends, i)
  /\ out' = <<>>
  /\ UNCHANGED <<activeChats, agentChatMap, userChatMap, registeredAgents,
                 tasks, chat_sessions, blocked, supabase, now,
                 topicChats, topics, handlers>>

\* socket.on("user_message"): the session is created when missing, the
\* message stored and broadcast, and, unless the mode is human, answered by
\* handleBotReply, which for a web session stores its reply at once
ServerSocketUserMessage(chatId, text) ==
  /\ LET create == chatId \notin DOMAIN activeChats
         c0 == IF create THEN Put(activeChats, chatId, NewChat("web", 0))
               ELSE activeChats
         o0 == IF create
               THEN <<emitToDashboard("chat_mode_changed", chatId, <<>>,
                                      "bot", Undefined)>>
               ELSE <<>>
         c1 == storeMessage(c0, chatId, Msg("user", text, Undefined, "none"))
         o1 == <<emitToDashboard("message_from_user", chatId, text, "",
                                 Undefined)>>
         r == handleBotReply("user_message", c1, {}, chatId, text, "none",
                             "web")
     IN /\ activeChats' = IF c1[chatId].mode = "human" THEN c1 ELSE r.chats
        /\ out' = o0 \o o1
                  \o (IF c1[chatId].mode = "human" THEN <<>> ELSE r.out)
        /\ appends' = appends \o appendCalls(activeChats, activeChats', chatId)
        /\ ev' = Event("user_message", "arrive", chatId, Undefined, text,
                       "none",
                       IF c1[chatId].mode = "human" THEN "human" ELSE r.path)
  /\ UNCHANGED <<agentChatMap, userChatMap, registeredAgents, tasks,
                 chat_sessions, blocked, supabase, chat_messages, now,
                 topicChats, topics, handlers>>

\* app.post("/takeover"): the update of chat_sessions changes no column
\* that is kept here
ServerHttpTakeover(chatId, agentId, agentName) ==
  /\ IF ~Truthy(agentId)
     THEN /\ out' = <<respond("400")>>
          /\ ev' = Event("http_takeover", "arrive", chatId, agentId, <<>>,
                         "none", "400")
          /\ UNCHANGED <<activeChats, appends>>
     ELSE /\ activeChats' = takeover(activeChats, chatId, agentId, agentName)
          /\ appends' = appends
                        \o appendCalls(activeChats, activeChats', chatId)
          /\ out' = <<emitToDashboard("chat_mode_changed", chatId, <<>>,
                                      "human", agentId),
                      respond("ok")>>
          /\ ev' = Event("http_takeover", "arrive", chatId, agentId, <<>>,
                         "none", "takeover")
  /\ UNCHANGED <<agentChatMap, userChatMap, registeredAgents, tasks,
                 chat_sessions, blocked, supabase, chat_messages, now,
                 topicChats, topics, handlers>>

\* app.post("/release"): no message is stored
ServerHttpRelease(chatId) ==
  /\ activeChats' =
       IF chatId \in DOMAIN activeChats
       THEN [activeChats EXCEPT ![chatId].mode = "bot",
                                ![chatId].agentId = Undefined,
                                ![chatId].agentName = Undefined,
                                ![chatId].requestingHuman = FALSE]
       ELSE activeChats
  /\ out' = <<emitToDashboard("chat_mode_changed", chatId, <<>>, "bot",
                              Undefined),
              respond("ok")>>
  /\ ev' = Event("http_release", "arrive", chatId, Undefined, <<>>, "none",
                 "release")
  /\ UNCHANGED <<agentChatMap, userChatMap, registeredAgents, tasks,
                 chat_sessions, blocked, supabase, chat_messages, appends, now,
                 topicChats, topics, handlers>>

\* the second app.post("/webhook"), the handler of the support bot, taken
\* in one step: /start, /list, /open <chat_id>, /release, and the text of
\* an agent, which goes to the chat the agent has opened
ServerSupportWebhook(a, text) ==
  /\ LET agentName == firstName(a)
         chatId == splitSecond(text)
         currentChat == IF a \in DOMAIN agentChatMap THEN agentChatMap[a]
                        ELSE ""
         opened == IF chatId \in DOMAIN activeChats
                   THEN storeMessage(
                          [activeChats EXCEPT
                             ![chatId].mode = "human",
                             ![chatId].agentId = String(a),
                             ![chatId].agentName = agentName,
                             ![chatId].requestingHuman = FALSE],
                          chatId,
                          Msg("system", Connected(agentName), Undefined,
                              "none"))
                   ELSE activeChats
         released == IF currentChat \in DOMAIN activeChats
                     THEN [activeChats EXCEPT
                             ![currentChat].mode = "bot",
                             ![currentChat].agentId = Undefined,
                             ![currentChat].agentName = Undefined,
                             ![currentChat].requestingHuman = FALSE]
                     ELSE activeChats
         hint(kind) == <<tgSend("supportBot", a, kind, "", <<>>),
                         respond("200")>>
     IN IF ~supabase
        THEN /\ out' = <<respond("200")>>
             /\ ev' = Event("support", "arrive", "", String(a), text, "none",
                            "no_store")
             /\ UNCHANGED <<activeChats, agentChatMap, appends>>
        ELSE IF text \in {CmdStart, CmdList}
        THEN /\ out' = hint(IF text = CmdStart THEN "welcome" ELSE "list")
             /\ ev' = Event("support", "arrive", "", String(a), text, "none",
                            "info")
             /\ UNCHANGED <<activeChats, agentChatMap, appends>>
        ELSE IF startsWith(text, CmdOpen)
        THEN IF chatId = ""
             THEN /\ out' = hint("usage")
                  /\ ev' = Event("support", "arrive", "", String(a), text,
                                 "none", "usage")
                  /\ UNCHANGED <<activeChats, agentChatMap, appends>>
             ELSE /\ agentChatMap' = Put(agentChatMap, a, chatId)
                  /\ activeChats' = opened
                  /\ appends' = appends
                                \o appendCalls(activeChats, opened, chatId)
                  /\ out' = <<emitToDashboard("chat_mode_changed", chatId,
                                              <<>>, "human", String(a)),
                              tgSend("supportBot", a, "opened", chatId, <<>>),
                              respond("200")>>
                  /\ ev' = Event("support", "arrive", chatId, String(a),
                                 text, "none", "open")
        ELSE IF text = CmdRelease
        THEN IF currentChat = ""
             THEN /\ out' = hint("none_open")
                  /\ ev' = Event("support", "arrive", "", String(a), text,
                                 "none", "none_open")
                  /\ UNCHANGED <<activeChats, agentChatMap, appends>>
             ELSE /\ agentChatMap' = Del(agentChatMap, a)
                  /\ activeChats' = released
                  /\ appends' = appends
                  /\ out' = <<emitToDashboard("chat_mode_changed",
                                              currentChat, <<>>, "bot",
                                              Undefined),
                              tgSend("supportBot", a, "released",
                                     currentChat, <<>>),
                              respond("200")>>
                  /\ ev' = Event("support", "arrive", currentChat,
                                 String(a), text, "none", "release")
        ELSE IF currentChat = ""
        THEN /\ out' = hint("hint")
             /\ ev' = Event("support", "arrive", "", String(a), text, "none",
                            "hint")
             /\ UNCHANGED <<activeChats, agentChatMap, appends>>
        ELSE IF currentChat \notin DOMAIN activeChats
        THEN /\ out' = hint("not_found")
             /\ ev' = Event("support", "arrive", currentChat, String(a),
                            text, "none", "not_found")
             /\ UNCHANGED <<activeChats, agentChatMap, appends>>
        ELSE /\ activeChats' =
                  storeMessage(activeChats, currentChat,
                               Msg("agent", text, String(a), "none"))
             /\ appends' = appends
                           \o appendCalls(activeChats, activeChats',
                                          currentChat)
             /\ agentChatMap' = agentChatMap
             /\ out' = (IF activeChats[currentChat].telegramUserId # 0
                        THEN <<tgSend("customerBot",
                                      activeChats[currentChat].telegramUserId,
                                      "agent_message", currentChat, text)>>
                        ELSE <<>>)
                       \o <<emitToDashboard("message_from_agent",
                                            currentChat, text, "",
                                            String(a)),
                            respond("200")>>
             /\ ev' = Event("support", "arrive", currentChat, String(a),
                            text, "none", "agent_message")
  /\ UNCHANGED <<userChatMap, registeredAgents, tasks, chat_sessions,
                 blocked, supabase, chat_messages, now,
                 topicChats, topics, handlers>>

\* a request Telegram posts to the application: Express hands it to the
\* handler Dispatch gives, or answers 404
ServerPost(path, from, text) ==
  LET handler == Dispatch("POST", path)
  IN IF handler = "customer" THEN ServerWebhook(from, text)
     ELSE IF handler = "support" THEN ServerSupportWebhook(from, text)
     ELSE /\ out' = <<respond("404")>>
          /\ ev' = Event("post", "arrive", "", String(from), text, "none",
                         "404")
          /\ UNCHANGED <<activeChats, agentChatMap, userChatMap,
                         registeredAgents, tasks, chat_sessions, blocked,
                         supabase, chat_messages, appends, now,
                 topicChats, topics, handlers>>

\* the application without a database client
NextNoStore ==
  \/ \E p \in ServerPaths, u \in TgUsers \cup Agents,
        t \in {T_hi, W_agent, OpenCommand("w1"), CmdRelease} :
       ServerPost(p, u, t) /\ FitsIn(MaxMsgsStore)'
  \/ \E c \in WebChatIds, t \in {T_hi, W_agent} :
       ServerSocketUserMessage(c, t) /\ FitsIn(MaxMsgsStore)'
  \/ \E c \in WebChatIds, g \in DashAgents :
       ServerHttpTakeover(c, g[1], g[2]) /\ FitsIn(MaxMsgsStore)'
  \/ \E c \in WebChatIds : ServerHttpRelease(c)

\* the state after construction when VITE_SUPABASE_URL or the key is not set
InitNoStore ==
  /\ InitMemory
  /\ supabase = FALSE

SpecNoStore == InitNoStore /\ [][NextNoStore]_vars

MaxNow == 2
\* web sessions of the specification of /list
ListChatIds == {"w1", "w2"}

\* time passes
Tick ==
  /\ now < MaxNow
  /\ now' = now + 1
  /\ out' = <<>>
  /\ ev' = Event("tick", "arrive", "", Undefined, <<>>, "none", "")
  /\ UNCHANGED <<activeChats, agentChatMap, userChatMap, registeredAgents,
                 tasks, chat_sessions, blocked, supabase, chat_messages,
                 appends, topicChats, topics, handlers>>

\* Array.from(activeChats.entries()): the keys in the order of the Map
entries(chats) ==
  [i \in 1..Cardinality(DOMAIN chats) |->
     CHOOSE c \in DOMAIN chats : chats[c].nth = i]

\* a comparator that puts the session longest idle first
compare_oldestFirst(chats, a, b) ==
  chats[a].lastActivityAt - chats[b].lastActivityAt

\* (a, b) => b[1].lastActivityAt - a[1].lastActivityAt
compare(chats, a, b) == chats[b].lastActivityAt - chats[a].lastActivityAt

\* one element more in a sorted array: x goes before the first element the
\* comparator puts after it, and so behind the elements it ties with
insert(chats, sorted, x) ==
  LET after == {i \in 1..Len(sorted) : compare(chats, sorted[i], x) > 0}
      at == IF after = {} THEN Len(sorted) + 1
            ELSE CHOOSE i \in after : \A j \in after : i <= j
  IN SubSeq(sorted, 1, at - 1) \o <<x>> \o SubSeq(sorted, at, Len(sorted))

\* Array.prototype.sort with the comparator: a stable sort, here by
\* insertion of the elements in their order in the array
RECURSIVE sort(_, _)
sort(chats, array) ==
  IF array = <<>> THEN <<>>
  ELSE insert(chats, sort(chats, SubSeq(array, 1, Len(array) - 1)),
              array[Len(array)])

\* "/list": 'No active chats.' for an empty registry, else one message with
\* an 'Open Chat' button for every entry of the sorted array; a send that
\* fails is logged and the loop goes on
SupportList(a) ==
  /\ LET sortedChats == sort(activeChats, entries(activeChats))
     IN out' = (IF sortedChats = <<>>
                THEN <<tgSend("supportBot", a, "no_chats", "", <<>>)>>
                ELSE [i \in 1..Len(sortedChats) |->
                        tgSend("supportBot", a, "list_entry", sortedChats[i],
                               <<>>)])
               \o <<respond("200")>>
  /\ ev' = Event("/list", "arrive", "", String(a), <<>>, "none", "")
  /\ UNCHANGED <<activeChats, agentChatMap, userChatMap, registeredAgents,
                 tasks, chat_sessions, blocked, supabase, chat_messages,
                 appends, now,
                 topicChats, topics, handlers>>

NextList ==
  \/ Tick
  \/ \E c \in ListChatIds : ApiChatSession(c)
  \/ \E u \in TgUsers :
       CustomerWebhook(u, T_hi, "none", TRUE) /\ Serial' /\ FitsIn(MaxMsgsRace)'
  \/ \E i \in 1..MaxTasks : ResumeReply(i)
  \/ \E c \in ListChatIds :
       SocketUserMessage(c, T_hi, "none", TRUE, TRUE) /\ Serial' /\ FitsIn(MaxMsgsRace)'
  \/ \E a \in Agents : SupportList(a)

SpecList == Init /\ [][NextList]_vars

\* the entries a /list step has sent, in the order of sending
IsListEntry(o) == o.kind = "list_entry"
ListEntries(sent) == SelectSeq(sent, IsListEntry)

\* ------------------------------------------------------------------------
\* C24: /list sends one entry for every session of the registry and no
\* other, the session most recently active first; sessions last active at
\* the same time come in the order they entered the registry, so that the
\* state fixes the order of the entries
\* ------------------------------------------------------------------------
C24_ListOrdered ==
  [][ev'.op = "/list" =>
       LET es == ListEntries(out')
       IN /\ Len(es) = Cardinality(DOMAIN activeChats)
          /\ \A c \in DOMAIN activeChats :
               Cardinality({i \in 1..Len(es) : es[i].chat = c}) = 1
          /\ \A i, j \in 1..Len(es) :
               i < j =>
                 LET x == activeChats[es[i].chat]
                     y == activeChats[es[j].chat]
                 IN \/ x.lastActivityAt > y.lastActivityAt
                    \/ /\ x.lastActivityAt = y.lastActivityAt
                       /\ x.nth < y.nth]_vars

\* a list of three sessions, two of them last active at the same time, the
\* session that entered the registry last listed first
C24_Witness ==
  /\ ev.op = "/list"
  /\ LET es == ListEntries(out)
     IN /\ Len(es) = 3
        /\ activeChats[es[1].chat].nth = 3
        /\ activeChats[es[2].chat].lastActivityAt
             = activeChats[es[3].chat].lastActivityAt

ServerChatIds == {SessionId(1), SessionId(2)}

\* customers write to the customer bot, agents send commands and texts to
\* the support bot; Telegram posts both to the application
NextSupport ==
  \/ \E u \in TgUsers :
       ServerPost("/webhook", u, T_hi) /\ FitsIn(MaxMsgsRace)'
  \/ \E p \in ServerPaths, a \in Agents, c \in ServerChatIds :
       ServerPost(p, a, OpenCommand(c)) /\ FitsIn(MaxMsgsRace)'
  \/ \E p \in ServerPaths, a \in Agents, t \in {CmdRelease, T_ok} :
       ServerPost(p, a, t) /\ FitsIn(MaxMsgsRace)'
  \/ \E i \in 1..MaxHandlers : ServerFindOrCreate(i)
  \/ \E i \in 1..MaxHandlers : ResumeReply(i)

SpecSupport == Init /\ [][NextSupport]_vars

\* the step in which the application has dealt with the message '/open c':
\* the support handler or the answer 404 at once, the customer handler when
\* its lookup has answered
OpenDealtWith(c) ==
  /\ ev'.text = OpenCommand(c)
  /\ \/ ev'.op \in {"support", "post"}
     \/ ev'.op = "webhook" /\ ev'.stage = "found"

\* ------------------------------------------------------------------------
\* C26: '/open <chat_id>' of an agent, posted to the webhook of the support
\* bot for a session of the registry, puts the session in human mode with
\* that agent
\* ------------------------------------------------------------------------
C26_OpenTakesOver ==
  [][\A c \in ServerChatIds :
       (c \in DOMAIN activeChats /\ OpenDealtWith(c))
         => /\ activeChats'[c].mode = "human"
            /\ \E a \in Agents : activeChats'[c].agentId = String(a)]_vars

\* ------------------------------------------------------------------------
\* src/src/server.ts: the logs and their copy in chat_messages
\* ------------------------------------------------------------------------
NextMirror ==
  \/ \E c \in WebChatIds, t \in {T_hi, W_agent} :
       ServerSocketUserMessage(c, t) /\ FitsIn(MaxMsgsStore)'
  \/ \E c \in WebChatIds, g \in DashAgents :
       ServerHttpTakeover(c, g[1], g[2]) /\ FitsIn(MaxMsgsStore)'
  \/ \E c \in WebChatIds : ServerHttpRelease(c)
  \/ \E i \in 1..MaxMsgsStore : AppendSelect(i)
  \/ \E i \in 1..MaxMsgsStore : AppendWrite(i)

SpecMirror == Init /\ [][NextMirror]_vars

\* the rows of chat_messages of a chat (none is ever archived)
RowsOf(chatId) ==
  {r \in 1..Len(chat_messages) : chat_messages[r].chat_id = chatId}

\* ------------------------------------------------------------------------
\* C27: when no call of appendMessage is in flight, chat_messages has, for
\* every session with messages, one row, and its chat_history is the log of
\* the session: every message once, in the order of the log
\* ------------------------------------------------------------------------
C27_HistoryMirrorsLog ==
  appends = <<>> =>
    \A c \in DOMAIN activeChats :
      activeChats[c].messages # <<>> =>
        /\ Cardinality(RowsOf(c)) = 1
        /\ \A r \in RowsOf(c) :
             chat_messages[r].chat_history = activeChats[c].messages

\* ------------------------------------------------------------------------
\* C28: in a Telegram session a message of the bot is appended only while
\* the session is in bot mode (customer messages and takeovers only, no
\* request_human event): a reply still being delivered when a takeover is
\* handled is not appended behind the 'connected' message
\* ------------------------------------------------------------------------
C28_BotReplyOnlyInBotMode ==
  [][\A c \in DOMAIN activeChats :
       (/\ activeChats[c].source = "telegram"
        /\ Len(activeChats'[c].messages) > Len(activeChats[c].messages)
        /\ activeChats'[c].messages[Len(activeChats'[c].messages)].from = "bot")
         => activeChats[c].mode = "bot"]_vars

\* ------------------------------------------------------------------------
\* Customer messages of one Telegram session whose handlers overlap
\* (src/unnamed/part_002): a webhook request is handled as soon as it
\* arrives, whether or not an earlier handler is suspended in tgSend
\* ------------------------------------------------------------------------
\* messages in the log of the session
MaxMsgsOverlap == 6

NextOverlap ==
  \/ \E u \in TgUsers, t \in {T_hi, T_ok, W_agent} :
       CustomerWebhook(u, t, "none", TRUE) /\ FitsIn(MaxMsgsOverlap)'
  \/ \E i \in 1..MaxHandlers : ResumeReply(i)

SpecOverlap == Init /\ [][NextOverlap]_vars

\* ------------------------------------------------------------------------
\* C29: the messages appended for a customer message of a Telegram session
\* in bot mode are contiguous in the log: what follows a message of the
\* user is the reply of the bot to it, never another message of the user
\* ------------------------------------------------------------------------
C29_HandlingSerialized ==
  \A c \in DOMAIN activeChats :
    activeChats[c].source = "telegram" =>
      \A k \in 1..(Len(activeChats[c].messages) - 1) :
        activeChats[c].messages[k].from = "user" =>
          /\ activeChats[c].messages[k + 1].from = "bot"
          /\ activeChats[c].messages[k + 1].text
               = botReplyText(activeChats[c].messages[k].text)

\* ------------------------------------------------------------------------
\* handleBotReply on texts that match a trigger, a keyword, both or neither
\* ------------------------------------------------------------------------
T_HelloHumanSupportPlease ==
  <<"h", "e", "l", "l", "o", ",", " ", "h", "u", "m", "a", "n", " ",
    "s", "u", "p", "p", "o", "r", "t", " ", "p", "l", "e", "a", "s", "e">>
T_PriceTalkToHuman == T_price \o <<" ">> \o toUpperCase(W_talk_to_human)

PrecedenceTexts ==
  {T_HelloHumanSupportPlease, T_PriceTalkToHuman, W_human_support,
   W_speak_to_human, W_agent, T_agents, T_hello, T_HelloCanYouHelp, T_human,
   T_xyz, <<>>}

NextPrecedence ==
  \/ \E u \in TgUsers, t \in PrecedenceTexts :
       CustomerWebhook(u, t, "none", TRUE) /\ Serial' /\ Fits'
  \/ \E c \in WebChatIds, t \in PrecedenceTexts :
       SocketUserMessage(c, t, "none", TRUE, TRUE) /\ Serial' /\ Fits'
  \/ \E i \in 1..MaxTasks : ResumeNotify(i, TRUE, TRUE)
  \/ \E i \in 1..MaxTasks : ResumeReply(i)
  \/ \E a \in Agents : SupportStart(a) /\ Fits'
  \/ \E a \in Agents, c \in ChatRefs : SupportOpen(a, c) /\ Fits'
  \/ \E a \in Agents : SupportRelease(a) /\ Fits'

SpecPrecedence == Init /\ [][NextPrecedence]_vars

\* some rule has a keyword that occurs in the text
SomeRuleMatches(text) == \E r \in 1..Len(autoReplies) : RuleMatches(r, text)

\* the reply of the first rule that matches
FirstRuleReply(text) ==
  autoReplies[CHOOSE r \in 1..Len(autoReplies) :
                /\ RuleMatches(r, text)
                /\ \A q \in 1..(r - 1) : ~RuleMatches(q, text)].reply

\* ------------------------------------------------------------------------
\* C30: handleBotReply on a session in bot mode sends one reply: the
\* escalation acknowledgment for a text that matches a trigger, whether or
\* not it has a keyword of a rule; else the reply of the first rule that
\* matches; else, for a text with no trigger and no keyword, the empty text
\* among them, the fallback
\* ------------------------------------------------------------------------
C30_TriggerThenRulesThenFallback ==
  BotReplied =>
    LET expected == IF IsTrigger(ev.text) THEN EscalationAck
                    ELSE IF SomeRuleMatches(ev.text)
                    THEN FirstRuleReply(ev.text)
                    ELSE Fallback
    IN /\ Cardinality(Those(IsBotReply)) = 1
       /\ \A i \in Those(IsBotReply) : out[i].text = expected

\* 'hello, human support please', which has the keywords 'hello' and
\* 'support', has been answered with the escalation acknowledgment
C30_Witness ==
  /\ BotReplied
  /\ ev.text = T_HelloHumanSupportPlease
  /\ SomeRuleMatches(ev.text)
  /\ RepliedWith(EscalationAck)
  /\ ~RepliedWith(R_hello)

\* ------------------------------------------------------------------------
\* Two agents of the support bot opening and releasing the same sessions
\* ------------------------------------------------------------------------
\* messages stored in all sessions together, enough for one agent to open two
MaxMsgsOwn == 4

NextOwnership ==
  \/ \E u \in TgUsers :
       CustomerWebhook(u, T_hi, "none", TRUE) /\ Serial' /\ FitsIn(MaxMsgsOwn)'
  \/ \E i \in 1..MaxTasks : ResumeReply(i)
  \/ \E c \in WebChatIds : ApiChatSession(c) /\ FitsIn(MaxMsgsOwn)'
  \/ \E a \in SupportAgents, c \in ChatRefs :
       SupportOpen(a, c) /\ FitsIn(MaxMsgsOwn)'
  \/ \E a \in SupportAgents, c \in ChatRefs :
       SupportCallback(a, c, TRUE) /\ FitsIn(MaxMsgsOwn)'
  \/ \E a \in SupportAgents : SupportRelease(a) /\ FitsIn(MaxMsgsOwn)'
  \/ \E c \in ChatRefs : HttpRelease(c) /\ FitsIn(MaxMsgsOwn)'
  \/ \E c \in ChatRefs : SocketRelease(c) /\ FitsIn(MaxMsgsOwn)'

SpecOwnership == Init /\ [][NextOwnership]_vars

\* ------------------------------------------------------------------------
\* C31: whenever agentChatMap maps agent a to chat c, session c exists in
\* activeChats, its mode is 'human' and its agentId is a
\* ------------------------------------------------------------------------
C31_MapAgreesWithRegistry ==
  \A a \in DOMAIN agentChatMap :
    LET c == agentChatMap[a]
    IN /\ c \in DOMAIN activeChats
       /\ activeChats[c].mode = "human"
       /\ activeChats[c].agentId = String(a)

\* ------------------------------------------------------------------------
\* C32: a /release of agent a at the support bot changes no session that
\* is not assigned to a at that time: a session another agent has taken
\* over since keeps its mode, its agent and its log
\* ------------------------------------------------------------------------
C32_ReleaseOnlyByAssignedAgent ==
  [][ev'.op = "/release" =>
       \A c \in DOMAIN activeChats :
         activeChats[c].agentId # ev'.agent =>
           /\ activeChats'[c].mode = activeChats[c].mode
           /\ activeChats'[c].agentId = activeChats[c].agentId
           /\ activeChats'[c].messages = activeChats[c].messages]_vars

\* ------------------------------------------------------------------------
\* C33: at most one session has mode 'human' with agentId equal to the
\* Telegram id of a given agent of the support bot
\* ------------------------------------------------------------------------
OwnedBy(a) ==
  {c \in DOMAIN activeChats : /\ activeChats[c].mode = "human"
                              /\ activeChats[c].agentId = String(a)}

C33_OneSessionPerAgent ==
  \A a \in SupportAgents : Cardinality(OwnedBy(a)) <= 1

\* ------------------------------------------------------------------------
\* A web session: its user asks for a human while agents take it over
\* ------------------------------------------------------------------------
NextRequest ==
  \/ \E c \in WebChatIds : ApiChatSession(c) /\ Fits'
  \/ \E c \in WebChatIds, t \in {T_hi, W_agent} :
       SocketUserMessage(c, t, "none", TRUE, TRUE) /\ Serial' /\ Fits'
  \/ \E i \in 1..MaxTasks : ResumeNotify(i, TRUE, TRUE)
  \/ \E c \in WebChatIds, e \in {"request_human", "request_human_support"} :
       SocketRequestHuman(e, c) /\ Serial' /\ Fits'
  \/ \E a \in Agents : SupportStart(a) /\ Fits'
  \/ \E a \in Agents, c \in WebChatIds : SupportOpen(a, c) /\ Fits'
  \/ \E a \in Agents : SupportRelease(a) /\ Fits'
  \/ \E c \in WebChatIds, g \in DashAgents : SocketTakeover(c, g[1], g[2]) /\ Fits'
  \/ \E c \in WebChatIds : SocketRelease(c) /\ Fits'

SpecRequest == Init /\ [][NextRequest]_vars

\* ------------------------------------------------------------------------
\* C34: a session with requestingHuman = true is in bot mode, and no step,
\* the socket events request_human and request_human_support among them,
\* appends a message with from = 'bot' to a session that is in human mode
\* ------------------------------------------------------------------------
BotMessagesAfter(chat, n) ==
  {k \in (n + 1)..Len(chat.messages) : chat.messages[k].from = "bot"}

C34_RequestOnlyInBotMode ==
  [][/\ \A c \in DOMAIN activeChats' :
          activeChats'[c].requestingHuman => activeChats'[c].mode = "bot"
     /\ \A c \in DOMAIN activeChats :
          activeChats[c].mode = "human" =>
            BotMessagesAfter(activeChats'[c],
                             Len(activeChats[c].messages)) = {}]_vars

\* ------------------------------------------------------------------------
\* C35: a dashboard client that starts from active_chats_snapshot and
\* applies the chat_mode_changed events holds the mode and the agent of
\* activeChats: every chat_mode_changed a step emits names a session of the
\* registry and gives the mode and the agent the session has after the
\* step (so none with mode 'human' is emitted for a chat id the registry
\* lacks), and every step that changes the mode or the agent of a session
\* emits one for it
\* ------------------------------------------------------------------------
IsModeChange(o) == o.ch = "io" /\ o.kind = "chat_mode_changed"

C35_DashboardRefinesRegistry ==
  [][/\ \A i \in 1..Len(out') :
          IsModeChange(out'[i]) =>
            /\ out'[i].chat \in DOMAIN activeChats'
            /\ activeChats'[out'[i].chat].mode = out'[i].mode
            /\ activeChats'[out'[i].chat].agentId = out'[i].agent
     /\ \A c \in DOMAIN activeChats :
          \/ /\ activeChats'[c].mode = activeChats[c].mode
             /\ activeChats'[c].agentId = activeChats[c].agentId
          \/ \E i \in 1..Len(out') :
               IsModeChange(out'[i]) /\ out'[i].chat = c]_vars

\* ========================================================================
\* src/unnamed/part_003: the variant without a database.  The history is
\* kept in the forum topics of the support group; chats (here topicChats)
\* maps String(userId) to a ChatState whose threadId names the topic.
\* ========================================================================
\* forum topics created
MaxTopics == 3
\* customer handlers suspended at the same time
MaxTopicHandlers == 2

TG_CUSTOMER == "TG_CUSTOMER"
TG_SUPPORT == "TG_SUPPORT"
SUPPORT_GROUP_ID == "-100xxxxxxxxxx"

\* `${first_name} ${last_name}`.trim() of a customer
customerName(u) == IF u = 1 THEN "Cy" ELSE "Di"

\* sendMessage(botUrl, chatId, text, threadId): the failure of the post is
\* caught inside; kind names the template the text is put in
sendMessage(botUrl, chatId, kind, text, threadId) ==
  [ch |-> botUrl, to |-> chatId, kind |-> kind, text |-> text,
   thread |-> threadId]

\* the event of a step of the variant
TopicEvent(op, user, thread, text, outcome) ==
  [op |-> op, user |-> user, thread |-> thread, text |-> text,
   outcome |-> outcome]

\* a customer handler at an await; chat is its local variable, the ChatState
\* object it looked up or created
Handler(pc, user, text, chat) ==
  [pc |-> pc, user |-> user, text |-> text, chat |-> chat]

\* the variables of src/unnamed/part_002 and src/src/server.ts
routerVars ==
  <<activeChats, agentChatMap, userChatMap, registeredAgents, tasks,
    chat_sessions, blocked, supabase, chat_messages, appends, now>>

\* the sendMessage of line 101, which stores the message in the topic
storeInTopic(u, text, threadId) ==
  sendMessage(TG_SUPPORT, SUPPORT_GROUP_ID, "user_copy", text, threadId)

\* app.post("/webhook/customer") up to its first await: the createForumTopic
\* of a user the map lacks, else the sendMessage into the topic
WebhookCustomer(u, text) ==
  /\ Len(handlers) < MaxTopicHandlers
  /\ LET key == String(u)
     IN IF key \notin DOMAIN topicChats
        THEN /\ handlers' = Append(handlers,
                              Handler("create", u, text, Undefined))
             /\ out' = <<[ch |-> TG_SUPPORT, to |-> SUPPORT_GROUP_ID,
                          kind |-> "createForumTopic", text |-> <<>>,
                          thread |-> Undefined]>>
             /\ ev' = TopicEvent("webhook/customer", u, Undefined, text,
                                 "create")
        ELSE LET chat == topicChats[key]
             IN /\ handlers' = Append(handlers,
                                 Handler("store", u, text, chat))
                /\ out' = <<storeInTopic(u, text, chat.threadId)>>
                /\ ev' = TopicEvent("webhook/customer", u, chat.threadId,
                                    text, "store")
  /\ UNCHANGED <<topicChats, topics>>
  /\ UNCHANGED routerVars

\* createForumTopic has answered: the handler makes the ChatState with the
\* thread id of the answer and sets it in the map, whatever the map holds
\* by now; a failed call is caught and answered 200
TopicCreated(i, created) ==
  /\ i \in 1..Len(handlers)
  /\ handlers[i].pc = "create"
  /\ LET h == handlers[i]
         key == String(h.user)
         threadId == Len(topics) + 1
         chat == [userId |-> h.user, userName |-> customerName(h.user),
                  threadId |-> threadId, mode |-> "bot"]
     IN IF ~created
        THEN /\ handlers' = Without(handlers, i)
             /\ out' = <<respond("200")>>
             /\ ev' = TopicEvent("webhook/customer", h.user, Undefined,
                                 h.text, "caught")
             /\ UNCHANGED <<topicChats, topics>>
        ELSE /\ Len(topics) < MaxTopics
             /\ topics' = Append(topics, h.user)
             /\ topicChats' = Put(topicChats, key, chat)
             /\ handlers' = [handlers EXCEPT
                               ![i] = Handler("store", h.user, h.text, chat)]
             /\ out' = <<storeInTopic(h.user, h.text, threadId)>>
             /\ ev' = TopicEvent("webhook/customer", h.user, threadId,
                                 h.text, "created")
  /\ UNCHANGED routerVars

\* the message is in the topic: in human mode the handler answers, in bot
\* mode it sends the auto-reply to the customer
MessageStored(i) ==
  /\ i \in 1..Len(handlers)
  /\ handlers[i].pc = "store"
  /\ LET h == handlers[i]
     IN IF h.chat.mode = "human"
        THEN /\ handlers' = Without(handlers, i)
             /\ out' = <<respond("200")>>
             /\ ev' = TopicEvent("webhook/customer", h.user, h.chat.threadId,
                                 h.text, "human")
        ELSE /\ handlers' = [handlers EXCEPT ![i].pc = "reply"]
             /\ out' = <<sendMessage(TG_CUSTOMER, h.user, "botReply", h.text,
                                     Undefined)>>
             /\ ev' = TopicEvent("webhook/customer", h.user, h.chat.threadId,
                                 h.text, "bot")
  /\ UNCHANGED <<topicChats, topics>>
  /\ UNCHANGED routerVars

\* the auto-reply is sent: its copy goes to the topic and the request is
\* answered
ReplySent(i) ==
  /\ i \in 1..Len(handlers)
  /\ handlers[i].pc = "reply"
  /\ LET h == handlers[i]
     IN /\ handlers' = Without(handlers, i)
        /\ out' = <<sendMessage(TG_SUPPORT, SUPPORT_GROUP_ID, "botReply_copy",
                                h.text, h.chat.threadId),
                    respond("200")>>
        /\ ev' = TopicEvent("webhook/customer", h.user, h.chat.threadId,
                            h.text, "done")
  /\ UNCHANGED <<topicChats, topics>>
  /\ UNCHANGED routerVars

\* [...chats.values()].find((c) => c.threadId === threadId)
find(threadId) ==
  IF \E k \in DOMAIN topicChats : topicChats[k].threadId = threadId
  THEN CHOOSE k \in DOMAIN topicChats : topicChats[k].threadId = threadId
  ELSE Undefined

\* app.post("/webhook/support"): a message of an agent in the support
\* group.  The mode is set on the ChatState object, which the handlers that
\* hold it see as well.
WebhookSupport(threadId, text, is_topic_message) ==
  /\ LET key == find(threadId)
     IN IF ~is_topic_message \/ key = Undefined
        THEN /\ out' = <<respond("200")>>
             /\ ev' = TopicEvent("webhook/support", Undefined, threadId, text,
                                 IF is_topic_message THEN "no_chat"
                                 ELSE "no_topic")
             /\ UNCHANGED <<topicChats, handlers>>
        ELSE LET chat == topicChats[key]
             IN /\ topicChats' = [topicChats EXCEPT ![key].mode = "human"]
                /\ handlers' =
                     [j \in 1..Len(handlers) |->
                        IF /\ handlers[j].pc # "create"
                           /\ handlers[j].chat.threadId = threadId
                        THEN [handlers[j] EXCEPT !.chat.mode = "human"]
                        ELSE handlers[j]]
                /\ out' = <<sendMessage(TG_CUSTOMER, chat.userId, "agent_msg",
                                        text, Undefined),
                            respond("200")>>
                /\ ev' = TopicEvent("webhook/support", chat.userId, threadId,
                                    text, "sent")
  /\ UNCHANGED topics
  /\ UNCHANGED routerVars

NextTopics ==
  \/ \E u \in TgUsers, t \in {T_hi, T_ok} : WebhookCustomer(u, t)
  \/ \E i \in 1..MaxTopicHandlers, created \in BOOLEAN : TopicCreated(i, created)
  \/ \E i \in 1..MaxTopicHandlers : MessageStored(i)
  \/ \E i \in 1..MaxTopicHandlers : ReplySent(i)
  \/ \E n \in DOMAIN topics, is_topic_message \in BOOLEAN :
       WebhookSupport(n, T_ok, is_topic_message)

SpecTopics == Init /\ [][NextTopics]_vars

\* the last step handled a message an agent posted in a topic
AgentPosted == ev.op = "webhook/support" /\ ev.outcome # "no_topic"

IsAgentMessageTo(o, u) ==
  o.ch = TG_CUSTOMER /\ o.kind = "agent_msg" /\ o.to = u

\* ------------------------------------------------------------------------
\* C36: however the handlers of the messages of a user overlap, one forum
\* topic is created for the user, and a message an agent posts in a topic
\* created for the user is sent to that user
\* ------------------------------------------------------------------------
C36_OneTopicPerUser ==
  /\ \A u \in TgUsers :
       Cardinality({n \in DOMAIN topics : topics[n] = u}) <= 1
  /\ AgentPosted /\ ev.thread \in DOMAIN topics =>
       \E i \in 1..Len(out) : IsAgentMessageTo(out[i], topics[ev.thread])

\* ------------------------------------------------------------------------
\* C37: the mode of a session changes only from 'bot' to 'human', in the
\* step that handles an agent message posted in its topic; a session in
\* human mode stays in it and its customer is sent no auto-reply
\* ------------------------------------------------------------------------
IsAutoReplyTo(o, u) ==
  o.ch = TG_CUSTOMER /\ o.kind = "botReply" /\ o.to = u

C37_HumanModeAbsorbing ==
  [][\A k \in DOMAIN topicChats :
       /\ topicChats'[k].mode # topicChats[k].mode =>
            /\ topicChats[k].mode = "bot"
            /\ topicChats'[k].mode = "human"
            /\ ev'.op = "webhook/support"
            /\ ev'.thread = topicChats[k].threadId
       /\ topicChats[k].mode = "human" =>
            /\ topicChats'[k].mode = "human"
            /\ \A i \in 1..Len(out') :
                 ~IsAutoReplyTo(out'[i], topicChats[k].userId)]_vars

\* ========================================================================
\* src/unnamed/part_002: the answers of the two webhooks
\* ========================================================================
\* app.post('/telegram/support/webhook') for an update with neither
\* callback_query nor message (answered 200 at once) or whose message has
\* no from (message.from.id throws, and the catch of the route answers 200)
SupportWebhookDiscarded(lacking) ==
  /\ out' = <<respond("200")>>
  /\ ev' = [Event("support_webhook", "arrive", "", Undefined, <<>>, "none",
                  IF lacking = "message" THEN "no_message" ELSE "threw")
              EXCEPT !.outcome = IF lacking = "message" THEN "done"
                                 ELSE "caught"]
  /\ UNCHANGED <<activeChats, agentChatMap, userChatMap, registeredAgents,
                 tasks>>
  /\ UNCHANGED <<chat_sessions, blocked, supabase, chat_messages, appends, now,
                 topicChats, topics, handlers>>

\* every branch of the two webhooks, with the external calls succeeding and
\* failing and with updates that lack a field
NextAnswer ==
  \/ \E u \in TgUsers, t \in {T_hi, W_agent}, f \in Files, delivered \in BOOLEAN :
       CustomerWebhook(u, t, f, delivered) /\ Serial' /\ FitsIn(MaxMsgsFail)'
  \/ \E lacking \in {"message", "from"} : CustomerWebhookDiscarded(lacking)
  \/ \E i \in 1..MaxTasks, delivered \in BOOLEAN :
       ResumeNotify(i, TRUE, delivered)
  \/ \E i \in 1..MaxTasks : ResumeReply(i)
  \/ \E a \in Agents, c \in ChatRefs, answered \in BOOLEAN :
       SupportCallback(a, c, answered) /\ FitsIn(MaxMsgsFail)'
  \/ \E lacking \in {"message", "from"} : SupportWebhookDiscarded(lacking)
  \/ \E a \in Agents : SupportStart(a)
  \/ \E a \in Agents : SupportList(a)
  \/ \E a \in Agents : SupportOpenUsage(a)
  \/ \E a \in Agents, c \in ChatRefs : SupportOpen(a, c) /\ FitsIn(MaxMsgsFail)'
  \/ \E a \in Agents : SupportRelease(a) /\ FitsIn(MaxMsgsFail)'
  \/ \E a \in Agents, f \in Files, delivered \in BOOLEAN :
       SupportText(a, T_ok, f, delivered) /\ FitsIn(MaxMsgsFail)'
  \/ \E c \in WebChatIds : ApiChatSession(c)

SpecAnswer == Init /\ [][NextAnswer]_vars

\* the operations of the customer webhook and of the support webhook
WebhookOps ==
  {"webhook", "support_webhook", "callback", "/start", "/list", "/open",
   "/release", "agent_text"}

\* requests of the customer webhook whose handler is at an await
Pending(ts) == Cardinality({i \in 1..Len(ts) : ts[i].op = "webhook"})

\* the answers among what a step sent
Answers(sent) == {i \in 1..Len(sent) : sent[i].ch = "http"}

\* ------------------------------------------------------------------------
\* C38: a request to the customer webhook or to the support webhook is
\* answered once, with status 200, whatever its body and whatever the
\* outcome of the external calls: the step in which it arrives either
\* answers it with one 200 or leaves its handler at an await, a step that
\* resumes a handler either leaves it at an await or ends it with one 200,
\* and nothing else is answered
\* ------------------------------------------------------------------------
C38_AnsweredOnceWith200 ==
  [][ev'.op \in WebhookOps =>
       /\ \A i \in Answers(out') : out'[i].kind = "200"
       /\ Cardinality(Answers(out')) <= 1
       /\ Cardinality(Answers(out')) + Pending(tasks')
            = Pending(tasks) + (IF ev'.stage = "arrive" THEN 1 ELSE 0)]_vars

\* a handler of a webhook whose external call failed has answered 200
C38_Witness ==
  /\ ev.op \in WebhookOps
  /\ ev.fault # "none"
  /\ ev.outcome = "caught"
  /\ Cardinality(Answers(out)) = 1
  /\ out[Len(out)] = respond("200")
====
